---- MODULE Spec2Model ----
(***************************************************************************)
(* SSH port-forwarding GUI: the PortForwarder registry of forwarding       *)
(* records (src/core/port_forwarder.py), its listener/accept threads and   *)
(* its byte pumps, as a state machine.                                     *)
(*                                                                         *)
(* Every `with self.lock:` section of the source is one atomic action.     *)
(* The code a thread runs between two lock sections is one action when it  *)
(* touches only that thread's own objects and the environment.             *)
(***************************************************************************)
EXTENDS Integers, Sequences, FiniteSets, TLC

---------------------------------------------------------------------------
(* Bounds of the model *)

\* Spec: forwarding records (dicts) ever created by add_forwarding, listener
\* sockets / accept threads ever created by start_forwarding, clients ever accepted
MaxObj == 1
MaxRun == 2
MaxConn == 1
\* SpecConns: records, listeners and clients ever created
PairObj == 1
PairRun == 1
PairConn == 2
\* SpecLife: records and listeners ever created (no client connects)
LifeObj == 2
LifeRun == 1
\* bytes a forwarding record's pumps ever read in one direction
MaxBytes == 2
\* longest chunk one recv returns (the source reads up to 4096 bytes)
MaxChunk == 2
\* the same in the runs with forwarders of all four kinds
KindObj == 1
KindRun == 2
KindConn == 1
KindBytes == 1
\* the same in the runs that keep the SOCKS requests
ProxyObj == 1
ProxyRun == 1
ProxyConn == 1
ProxyBytes == 1
\* the same in the runs of a remote forwarder
RemoteObj == 1
RemoteRun == 2
RemoteConn == 2
RemoteBytes == 1
\* the same in the runs of concurrent pumps of one local forwarder
LeakObj == 1
LeakRun == 2
LeakConn == 1
LeakBytes == 1
AuthClient == 1
SyncObj == 1
SyncRun == 2
PumpObj == 1
PumpRun == 1
PumpConn == 2
PumpBytes == 2
\* the same, and the clients and forwarding dicts of SSHManager, in the runs of
\* a PortForwarder next to an SSHManager
BothObj == 1
BothRun == 1
BothConn == 1
BothClient == 1
BothFwd == 1
\* SSHManager: client objects connect creates, forwarding dicts its start_*
\* calls create, clients its accept threads accept
MaxClient == 2
MaxFwd == 2
\* the same in the runs that follow a lost transport
LostClient == 1
LostFwd == 1
\* the same in the runs where clients connect to the accept threads
SocksClient == 1
SocksFwd == 1
MaxHand == 1

---------------------------------------------------------------------------
(* Values *)

None == "None"
Host == "127.0.0.1"
Ports == {18000}
NoPort == 0
Kinds == {"local", "remote", "dynamic", "internal"}
\* the forwarding_type values callers pass; "udp" is none of the known ones
TypeInputs == Kinds \cup {"udp"}
\* a host only the SSH server resolves
InternalHost == "10.0.0.5"

\* forwarding_config dicts: the keys the source reads, an absent key as None/NoPort
NoConfig ==
    [local_host |-> None, local_port |-> NoPort, bind_host |-> None,
     bind_port |-> NoPort, remote_host |-> None, remote_port |-> NoPort,
     internal_host |-> None, internal_port |-> NoPort]
LocalConfig(p) == [NoConfig EXCEPT !.local_host = Host, !.local_port = p]
DynamicConfig(p) == [NoConfig EXCEPT !.bind_host = Host, !.bind_port = p]
RemoteConfig(p) ==
    [NoConfig EXCEPT !.remote_host = Host, !.remote_port = p,
                     !.local_host = Host, !.local_port = p]
InternalConfig(p) ==
    [NoConfig EXCEPT !.internal_host = InternalHost, !.internal_port = p,
                     !.local_host = Host, !.local_port = p]
ConfigOf(type, p) ==
    IF type = "dynamic" THEN DynamicConfig(p)
    ELSE IF type = "remote" THEN RemoteConfig(p)
    ELSE IF type = "internal" THEN InternalConfig(p)
    ELSE LocalConfig(p)

\* f"{type}:{host}:{port}" as the triple it is formatted from
ForwardingId(type, config) ==
    IF type = "local" THEN <<"local", config.local_host, config.local_port>>
    ELSE IF type = "remote" THEN <<"remote", config.remote_host, config.remote_port>>
    ELSE IF type = "dynamic" THEN <<"dynamic", config.bind_host, config.bind_port>>
    ELSE IF type = "internal"
    THEN <<"internal", config.internal_host, config.internal_port>>
    ELSE <<None, None, NoPort>>

NoId == <<None, None, NoPort>>
\* a remote rule that leaves the choice of the port to the server
AnyPortConfig(p) == [RemoteConfig(p) EXCEPT !.remote_port = NoPort]
\* the ports of the rules whose ids are compared
IdPorts == {18000, 18001, 18002}
\* a rule of kind type with p the port its id carries and q its other port
RuleConfig(type, p, q) ==
    IF type = "remote" THEN [RemoteConfig(q) EXCEPT !.remote_port = p]
    ELSE IF type = "internal" THEN [InternalConfig(q) EXCEPT !.internal_port = p]
    ELSE ConfigOf(type, p)
Ids ==
    {ForwardingId(k, ConfigOf(k, p)) : k \in Kinds, p \in Ports}
        \cup {ForwardingId("remote", AnyPortConfig(p)) : p \in Ports}

\* the address a forwarding record's listener binds
BindAddr(f) ==
    IF f.type \in {"local", "internal"} THEN <<f.config.local_host, f.config.local_port>>
    ELSE <<f.config.bind_host, f.config.bind_port>>
Addrs == {<<Host, p>> : p \in Ports}
\* the address the forwarder of a rule listens on: the socket its start routine
\* binds, or the address it passes to request_port_forward
ListenAddr(type, config) ==
    IF type = "remote" THEN <<config.remote_host, config.remote_port>>
    ELSE BindAddr([type |-> type, config |-> config])

Max(a, b) == IF a > b THEN a ELSE b
Objs ==
    1..Max(Max(Max(MaxObj, KindObj), Max(PairObj, Max(LifeObj, ProxyObj))),
           Max(RemoteObj, Max(PumpObj, BothObj)))
Runs ==
    1..Max(Max(Max(MaxRun, KindRun), Max(PairRun, Max(LifeRun, ProxyRun))),
           Max(RemoteRun, Max(PumpRun, BothRun)))
Conns ==
    1..Max(Max(Max(MaxConn, KindConn), Max(PairConn, ProxyConn)),
           Max(RemoteConn, Max(PumpConn, BothConn)))

\* the dict add_forwarding builds
NewForwarding(fid, type, config) ==
    [id |-> fid, type |-> type, config |-> config, active |-> FALSE,
     thread |-> 0, server_socket |-> 0, connections |-> {},
     bytes_sent |-> 0, bytes_received |-> 0, error |-> None]

\* a slot of the heap no dict was allocated in yet
FreeSlot == NewForwarding(NoId, None, LocalConfig(NoPort))

\* a listener socket, an accept thread not created yet, a connection not accepted yet
NoSocket == [st |-> "none", addr |-> <<None, NoPort>>]
NoThread == [fwd |-> 0, sock |-> 0, pc |-> "none", client |-> 0]
NoConn ==
    [fwd |-> 0, socket |-> "none", channel |-> "none", bytes_sent |-> 0,
     bytes_received |-> 0, pc |-> "none", pend_dir |-> None, pend |-> 0,
     more |-> FALSE]

NoSignal == [kind |-> "none", fwd |-> 0, active |-> FALSE, sent |-> 0, recv |-> 0]
StatusSignal(o, a) ==
    [kind |-> "status", fwd |-> o, active |-> a, sent |-> 0, recv |-> 0]
TrafficSignal(o, s, r) ==
    [kind |-> "traffic", fwd |-> o, active |-> FALSE, sent |-> s, recv |-> r]

NoCall == [op |-> "none", id |-> NoId, ret |-> None, again |-> FALSE, was |-> None]

---------------------------------------------------------------------------
(* Values of SSHManager *)

SshPort == 22
Users == {"t", "u"}
\* f"{host}:{port}:{username}" as the triple it is formatted from
ClientId(host, port, username) == <<host, port, username>>
ClientIds == {ClientId(Host, SshPort, u) : u \in Users}
NoClientId == <<None, NoPort, None>>

Clients == 1..Max(Max(MaxClient, BothClient), Max(LostClient, SocksClient))
Fwds == 1..Max(Max(MaxFwd, BothFwd), Max(LostFwd, SocksFwd))
Hands == 1..MaxHand

\* the forwarding kinds SSHManager starts
SshKinds == {"local", "remote", "dynamic"}
\* f"{type}:{host}:{port}" of start_*_forwarding, as a triple
SshForwardingId(type, host, port) == <<type, host, port>>
SshIds == {SshForwardingId(k, Host, p) : k \in SshKinds, p \in Ports}

\* a paramiko.SSHClient: the identity it was connected for and its transport
NoClient == [id |-> NoClientId, st |-> "none"]
\* the dict a start_*_forwarding call builds, with the position of its accept
\* thread and the listener socket that thread owns
NoFwd ==
    [type |-> None, client |-> 0, addr |-> <<None, NoPort>>, active |-> FALSE,
     pc |-> "none", sock |-> "none"]
\* a connection handler thread: its client socket, its channel, the SOCKS
\* request it read and the replies it sent
NoRequest == [ver |-> 0, cmd |-> 0, atyp |-> 0, len |-> 0, whole |-> FALSE]
NoHand ==
    [fwd |-> 0, socket |-> "none", channel |-> "none", pc |-> "none",
     req |-> NoRequest, reply |-> <<>>, opened |-> FALSE]

\* SOCKS5: a client's request as the handlers read it. ver: the version byte of
\* the greeting; cmd, atyp: of the request header; len: the domain length byte
\* (atyp 3); whole: the bytes after the header arrive (FALSE: the peer closes
\* after the header, recv returns b"")
SocksRequests ==
    {[ver |-> v, cmd |-> c, atyp |-> a, len |-> n, whole |-> w] :
        v \in {4, 5}, c \in {1, 2}, a \in {1, 3, 4, 9}, n \in {0, 1}, w \in BOOLEAN}
\* what open_channel does: returns a channel, returns None, raises
ChannelOutcomes == {"channel", "None", "raise"}
\* b"\x05\x00" and the 10-byte replies b"\x05<rep>\x00\x01" + 6 zero bytes
SocksMethodReply == <<5, 0>>
SocksReply(code) == <<5, code, 0, 1, 0, 0, 0, 0, 0, 0>>
\* what a handler did with a request: the replies sent, whether open_channel
\* was called, whether the client socket is closed, the channel it holds
Handled(reply, opened, socket, channel) ==
    [reply |-> reply, opened |-> opened, socket |-> socket, channel |-> channel]

\* no request read yet
NoSocks == [req |-> NoRequest, reply |-> <<>>, opened |-> FALSE]

ConnectionSignal(cid, up) == [kind |-> "connection", id |-> cid, fwd |-> 0, on |-> up]
ForwardingSignal(o, a) == [kind |-> "forwarding", id |-> NoClientId, fwd |-> o, on |-> a]

\* an SSHManager call: was: the client the registry held under id before the
\* call; were: the forwarding dicts of the client that were active before it
\* the password and key_path arguments of connect: none, or a password; none,
\* a path with no file, an RSA key file, a file from_private_key_file rejects
Passwords == {"", "pw"}
KeyPaths == {"", "missing", "id_rsa", "garbled"}
\* what a server can accept of a client: the key passed as pkey, the password,
\* a key of the agent or of ~/.ssh, which client.connect offers by itself
Methods == {"pkey", "password", "agent"}
NoAuth == [password |-> "", key_path |-> "", accepts |-> {}]

NoSshCall ==
    [op |-> "none", client |-> 0, id |-> NoClientId, ret |-> None, again |-> FALSE,
     was |-> 0, were |-> {}]

---------------------------------------------------------------------------
VARIABLES
    forwardings,   \* self.forwardings: id -> the record registered (0: absent)
    fobj,          \* the heap of forwarding dicts, by allocation order
    nobj,          \* forwarding dicts allocated so far
    lsock,         \* listener sockets created by start: state and bound address
    thread,        \* accept threads, one per successful start
    nrun,          \* listener sockets / accept threads created so far
    conn,          \* connection dicts with their socket, channel and pump thread
    nconn,         \* connections accepted so far
    extBound,      \* addresses another process listens on
    removing,      \* ids whose remove_forwarding is between its stop and its del
    last,          \* the API call made by the last step and what it returned
    signal,        \* the Qt signal emitted by the last step
    added,         \* history: ids whose add returned an id, no remove returned since
    wrote,         \* history: bytes written per record, to channels and to sockets
    stopped,       \* history: records whose stop returned with no start since
    downs,         \* history: active=false signals per record since its last start
    cap,           \* the run's budget of records, listeners and connections, and
                   \* the histories it keeps
    starting,      \* the start_forwarding call that holds the lock between its
                   \* thread.start() and its emit
    ups,           \* history: the runs whose active=true signal was emitted
    ofRun,         \* history: the run that accepted each connection
    socks,         \* history: the SOCKS request each connection's handler read,
                   \* the replies it sent, whether it called open_channel
    traffic,       \* history: per record, the sums of the sent and of the received
                   \* deltas of the forwarding_traffic signals emitted for it
    rule,          \* two rules of one kind, the ids add_forwarding formats for
                   \* them and the addresses their forwarders listen on
    clients,       \* SSHManager.clients: identity -> the client stored (0: absent)
    client,        \* the heap of paramiko.SSHClient objects connect created
    ssh_forwardings, \* SSHManager.forwardings: the (id, dict) items in dict order
    sfwd,          \* the heap of forwarding dicts, each with its accept thread
    hand,          \* the connection handler threads of SSHManager
    emitted,       \* the SSHManager signals the last step emitted, in order
    ssh_last,      \* the SSHManager call made by the last step
    auth           \* the credentials of the last connect call and the methods
                   \* its server accepts

vars == <<forwardings, fobj, nobj, lsock, thread, nrun, conn, nconn, extBound,
          removing, last, signal, added, wrote, stopped, downs, cap,
          starting, ups, ofRun, socks, traffic, rule,
          clients, client, ssh_forwardings, sfwd, hand, emitted, ssh_last, auth>>

\* the variables of SSHManager, and those of PortForwarder
sshvars == <<clients, client, ssh_forwardings, sfwd, hand, emitted, ssh_last, auth>>
pfvars == <<forwardings, fobj, nobj, lsock, thread, nrun, conn, nconn, removing,
            last, signal, added, wrote, stopped, downs, cap, starting, ups, ofRun,
            socks, traffic, rule>>

\* the variables of the program proper
prog == <<forwardings, fobj, nobj, lsock, thread, nrun, conn, nconn, removing>>

\* no start_forwarding call is between its thread.start() and its emit
\* wait: the call is inside request_port_forward, waiting for the server's reply
\* emit: the call is inside forwarding_status_changed.emit, in an observer's slot
NoStart == [fwd |-> 0, id |-> NoId, run |-> 0, wait |-> FALSE, emit |-> FALSE]

NoTraffic == [sent |-> 0, received |-> 0]
NoRule ==
    [type |-> None, a |-> NoConfig, b |-> NoConfig, id_a |-> NoId, id_b |-> NoId,
     addr_a |-> <<None, NoPort>>, addr_b |-> <<None, NoPort>>]

NoWrote == [chan |-> 0, sock |-> 0, chan_full |-> 0, sock_full |-> 0]

\* the state after SSHManager.__init__
FreshSSH ==
    /\ clients = [i \in ClientIds |-> 0]
    /\ client = [k \in Clients |-> NoClient]
    /\ ssh_forwardings = <<>>
    /\ sfwd = [o \in Fwds |-> NoFwd]
    /\ hand = [h \in Hands |-> NoHand]
    /\ emitted = <<>>
    /\ ssh_last = NoSshCall
    /\ auth = NoAuth

\* the state after PortForwarder.__init__
Fresh ==
    /\ forwardings = [i \in Ids |-> 0]
    /\ fobj = [o \in Objs |-> FreeSlot]
    /\ nobj = 0
    /\ lsock = [r \in Runs |-> NoSocket]
    /\ thread = [r \in Runs |-> NoThread]
    /\ nrun = 0
    /\ conn = [c \in Conns |-> NoConn]
    /\ nconn = 0
    /\ extBound = {}
    /\ removing = {}
    /\ last = NoCall
    /\ signal = NoSignal
    /\ added = {}
    /\ wrote = [o \in Objs |-> NoWrote]
    /\ stopped = [o \in Objs |-> FALSE]
    /\ downs = [o \in Objs |-> 0]
    /\ starting = NoStart
    /\ ups = {}
    /\ ofRun = [c \in Conns |-> 0]
    /\ socks = [c \in Conns |-> NoSocks]
    /\ traffic = [o \in Objs |-> NoTraffic]
    /\ rule = NoRule
    /\ FreshSSH

Init ==
    /\ cap = [obj |-> MaxObj, run |-> MaxRun, conn |-> MaxConn, log |-> {"stopped"},
              client |-> 0, fwd |-> 0, hand |-> 0,
              kinds |-> {"local", "dynamic"}, bytes |-> MaxBytes]
    /\ Fresh

\* a run with more clients and fewer restarts
InitConns ==
    /\ cap = [obj |-> PairObj, run |-> PairRun, conn |-> PairConn,
              log |-> {}, client |-> 0, fwd |-> 0, hand |-> 0,
              kinds |-> {"local", "dynamic"}, bytes |-> MaxBytes]
    /\ Fresh

\* a run of the registry and its accept threads with no client connecting
InitLife ==
    /\ cap = [obj |-> LifeObj, run |-> LifeRun, conn |-> 0, log |-> {"calls", "downs"},
              client |-> 0, fwd |-> 0, hand |-> 0,
              kinds |-> {"local", "dynamic"}, bytes |-> MaxBytes]
    /\ Fresh

\* the call record of an API call, in the runs that keep it; again: the step
\* before this one was the same call and it succeeded; was: the error field the
\* call found in the record of a registered id
Call(op, fid, ret) ==
    IF "calls" \in cap.log
    THEN [op |-> op, id |-> fid, ret |-> ret,
          again |-> last.op = op /\ last.id = fid /\ last.ret \in {"True", "id"},
          was |-> IF fid \in Ids /\ forwardings[fid] # 0
                  THEN fobj[forwardings[fid]].error ELSE None]
    ELSE NoCall

\* a step of a thread: no API call returns
ThreadStep ==
    last' = NoCall
    /\ UNCHANGED <<cap, sshvars, starting, ups, ofRun, socks, traffic, rule>>

\* mutant: no thread waits for the lock
UnlockedAlways == TRUE

\* `with self.lock:` is entered: no start_forwarding call holds the lock
Unlocked == starting.fwd = 0

\* a step of the thread of run r that accepts connection c
AcceptStep(c, r) ==
    /\ last' = NoCall
    /\ ofRun' = IF "runs" \in cap.log THEN [ofRun EXCEPT ![c] = r] ELSE ofRun
    /\ UNCHANGED <<cap, sshvars, starting, ups, socks, traffic, rule>>

\* an API call returns ret
Returns(op, fid, ret) ==
    last' = Call(op, fid, ret)
    /\ UNCHANGED <<cap, sshvars, starting, ups, ofRun, socks, traffic, rule>>

---------------------------------------------------------------------------
(* Reads of the registry *)

\* `forwarding_id in self.forwardings`
IsRegistered(fid) == forwardings[fid] # 0

\* get_forwarding_status: the status dict, None for an unknown id
get_forwarding_status(fid) ==
    IF ~IsRegistered(fid) THEN None
    ELSE LET f == fobj[forwardings[fid]] IN
         [id |-> f.id, type |-> f.type, active |-> f.active,
          connections |-> Cardinality(f.connections),
          bytes_sent |-> f.bytes_sent, bytes_received |-> f.bytes_received,
          error |-> f.error]

\* get_all_forwardings: list(self.forwardings.values()), as the bag of its ids
get_all_forwardings ==
    LET regd == {i \in Ids : IsRegistered(i)} IN
    [x \in {fobj[forwardings[i]].id : i \in regd} |->
        Cardinality({i \in regd : fobj[forwardings[i]].id = x})]

\* bind() is refused when another listener holds the address
AddrInUse(a) ==
    \/ a \in extBound
    \/ \E r \in Runs : lsock[r].st = "open" /\ lsock[r].addr = a

---------------------------------------------------------------------------
(* add_forwarding *)

\* mutant: add_forwarding without its duplicate check
DuplicateIgnored(fid) == FALSE

\* `if forwarding_id in self.forwardings: return None`
Duplicate(fid) == forwardings[fid] # 0

add_forwarding(type, config) ==
    LET fid == ForwardingId(type, config) IN
    /\ type \in Kinds => Unlocked
    /\ signal' = NoSignal
    /\ UNCHANGED <<lsock, thread, nrun, conn, nconn, extBound, removing, wrote,
                   stopped, downs>>
    /\ IF type \notin Kinds
       THEN /\ Returns("add", fid, None)
            /\ UNCHANGED <<forwardings, fobj, nobj, added>>
       ELSE IF Duplicate(fid)
       THEN /\ Returns("add", fid, None)
            /\ UNCHANGED <<forwardings, fobj, nobj, added>>
       ELSE /\ nobj < cap.obj
            /\ nobj' = nobj + 1
            /\ fobj' = [fobj EXCEPT ![nobj + 1] = NewForwarding(fid, type, config)]
            /\ forwardings' = [forwardings EXCEPT ![fid] = nobj + 1]
            /\ Returns("add", fid, "id")
            /\ added' = added \cup {fid}

---------------------------------------------------------------------------
(* start_forwarding *)

\* the bind()/listen() of a start routine raises
BindRefused(o) == AddrInUse(BindAddr(fobj[o]))

\* mutant: the except branch returns False without recording the error
StartFailedNoError(o, fid) ==
    /\ signal' = NoSignal
    /\ Returns("start", fid, "False")
    /\ UNCHANGED <<fobj, lsock, thread, nrun, stopped, downs>>

\* the except branch of a start routine: forwarding["error"] = str(e); return False
StartFailed(o, fid) ==
    /\ fobj' = [fobj EXCEPT ![o].error = "bind"]
    /\ signal' = NoSignal
    /\ Returns("start", fid, "False")
    /\ UNCHANGED <<lsock, thread, nrun, stopped, downs>>

\* mutant: a start that also resets the traffic counters
StartedRecordReset(f, r) ==
    [f EXCEPT !.server_socket = r, !.active = TRUE, !.error = None, !.thread = r,
              !.bytes_sent = 0, !.bytes_received = 0]

\* the record after a successful bind: listener, active, error cleared, thread
StartedRecord(f, r) ==
    [f EXCEPT !.server_socket = r, !.active = TRUE, !.error = None, !.thread = r]

\* the end of a start routine: emit(forwarding, True) and `return True`. In the
\* runs that follow the threads started before the emit, the call stops before
\* its emit, holding the lock
Announced(o, fid, r) ==
    IF "runs" \in cap.log
    THEN /\ signal' = NoSignal
         /\ last' = NoCall
         /\ starting' = [fwd |-> o, id |-> fid, run |-> r, wait |-> FALSE,
                          emit |-> FALSE]
         /\ UNCHANGED <<cap, sshvars, ups, ofRun, socks, traffic, rule>>
    ELSE /\ signal' = StatusSignal(o, TRUE)
         /\ Returns("start", fid, "True")

\* forwarding_status_changed.emit(forwarding, True); return True; the lock of
\* start_forwarding is released. In the runs with an observer connected
\* directly, emit() calls the observer's slot before it returns: a slot that
\* reads the registry is entered with the lock of start_forwarding held
start_emit ==
    /\ starting.fwd # 0 /\ ~starting.wait /\ ~starting.emit
    /\ signal' = StatusSignal(starting.fwd, TRUE)
    /\ \/ /\ last' = Call("start", starting.id, "True")
          /\ starting' = NoStart
       \/ /\ "sync" \in cap.log
          /\ last' = NoCall
          /\ starting' = [starting EXCEPT !.emit = TRUE]
    /\ ups' = ups \cup {starting.run}
    /\ UNCHANGED <<prog, extBound, added, wrote, stopped, downs, cap, ofRun, socks,
                   traffic, rule, sshvars>>

\* the try branch of a start routine after bind()/listen() succeeded
StartListening(o, fid) ==
    /\ nrun < cap.run
    /\ LET r == nrun + 1 IN
       /\ nrun' = r
       /\ lsock' = [lsock EXCEPT ![r] = [st |-> "open", addr |-> BindAddr(fobj[o])]]
       /\ fobj' = [fobj EXCEPT ![o] = StartedRecord(fobj[o], r)]
       /\ thread' = [thread EXCEPT ![r] = [fwd |-> o, sock |-> 0, pc |-> "init",
                                           client |-> 0]]
    /\ Announced(o, fid, nrun + 1)
    /\ stopped' = [stopped EXCEPT ![o] = FALSE]
    /\ downs' = [downs EXCEPT ![o] = 0]

_start_local_forwarding(o, fid) ==
    IF BindRefused(o) THEN StartFailed(o, fid) ELSE StartListening(o, fid)

_start_dynamic_forwarding(o, fid) ==
    IF BindRefused(o) THEN StartFailed(o, fid) ELSE StartListening(o, fid)

_start_internal_forwarding(o, fid) ==
    IF BindRefused(o) THEN StartFailed(o, fid) ELSE StartListening(o, fid)

\* the record after request_port_forward returned: active, error cleared
RemoteStartedRecord(f) == [f EXCEPT !.active = TRUE, !.error = None]

\* the ports the server can listen on for a request of port q: q, any for 0
Allocated(q) == IF q = NoPort THEN Ports ELSE {q}

\* request_port_forward returned: the server listens and the transport holds
\* the handler; no listener socket and no thread of the forwarder's own. The
\* port the call returns is dropped
Forwarded(o) ==
    /\ nrun < cap.run
    /\ \E p \in Allocated(fobj[o].config.remote_port) :
       LET r == nrun + 1 IN
       /\ nrun' = r
       /\ lsock' = [lsock EXCEPT ![r] =
                        [st |-> "forward", addr |-> <<fobj[o].config.remote_host, p>>]]
       /\ fobj' = [fobj EXCEPT ![o] = RemoteStartedRecord(fobj[o])]
       /\ thread' = [thread EXCEPT ![r] = [fwd |-> o, sock |-> 0, pc |-> "forwarded",
                                           client |-> 0]]
    /\ stopped' = [stopped EXCEPT ![o] = FALSE]
    /\ downs' = [downs EXCEPT ![o] = 0]

StartForwarded(o, fid) == Forwarded(o) /\ Announced(o, fid, nrun + 1)

\* the call sent its request to the server and waits in request_port_forward,
\* inside the `with self.lock:` of start_forwarding
RequestSent(o, fid) ==
    /\ starting' = [fwd |-> o, id |-> fid, run |-> 0, wait |-> TRUE, emit |-> FALSE]
    /\ signal' = NoSignal
    /\ last' = NoCall
    /\ UNCHANGED <<fobj, lsock, thread, nrun, stopped, downs, cap, sshvars, ups, ofRun,
                   socks, traffic, rule>>

\* request_port_forward raises (no ssh_client in the config, the server
\* refuses, the transport is gone), or returns; in the runs that follow the
\* round trip to the server, the call first waits for it
_start_remote_forwarding(o, fid) ==
    IF "io" \in cap.log THEN RequestSent(o, fid)
    ELSE StartFailed(o, fid) \/ StartForwarded(o, fid)

\* the thread of the transport is inside a handler of forwarder o, whose
\* registrations are all on the transport of its one ssh_client: it reads no
\* message, opens no other channel and delivers no reply until the handler
\* returns
TransportBusy(o) ==
    \E r \in Runs : thread[r].fwd = o /\ thread[r].pc \in {"lock", "handler"}

\* the server's reply arrives: the rest of _start_remote_forwarding and the
\* return of start_forwarding, which releases the lock
start_reply ==
    /\ starting.wait
    /\ ~TransportBusy(starting.fwd)
    /\ LET o == starting.fwd IN
       \/ /\ fobj' = [fobj EXCEPT ![o].error = "bind"]
          /\ signal' = NoSignal
          /\ last' = Call("start", starting.id, "False")
          /\ UNCHANGED <<lsock, thread, nrun, stopped, downs>>
       \/ /\ Forwarded(o)
          /\ signal' = StatusSignal(o, TRUE)
          /\ last' = Call("start", starting.id, "True")
    /\ starting' = NoStart
    /\ UNCHANGED <<forwardings, nobj, conn, nconn, extBound, removing, added, wrote,
                   cap, sshvars, ups, ofRun, socks, traffic, rule>>

\* mutant: start_forwarding without its already-active check
AlreadyActiveIgnored(o) == FALSE

\* `if forwarding.get("active", False): return True`
AlreadyActive(o) == fobj[o].active

start_forwarding(fid) ==
    /\ Unlocked
    /\ UNCHANGED <<forwardings, nobj, conn, nconn, extBound, removing, added, wrote>>
    /\ IF ~IsRegistered(fid)
       THEN /\ Returns("start", fid, "False")
            /\ signal' = NoSignal
            /\ UNCHANGED <<fobj, lsock, thread, nrun, stopped, downs>>
       ELSE LET o == forwardings[fid] IN
            IF AlreadyActive(o)
            THEN /\ Returns("start", fid, "True")
                 /\ signal' = NoSignal
                 /\ UNCHANGED <<fobj, lsock, thread, nrun, stopped, downs>>
            ELSE IF fobj[o].type = "local"
            THEN _start_local_forwarding(o, fid)
            ELSE IF fobj[o].type = "remote"
            THEN _start_remote_forwarding(o, fid)
            ELSE IF fobj[o].type = "dynamic"
            THEN _start_dynamic_forwarding(o, fid)
            ELSE _start_internal_forwarding(o, fid)

---------------------------------------------------------------------------
(* stop_forwarding, remove_forwarding *)

Min(a, b) == IF a < b THEN a ELSE b

\* the histories, in the runs that keep them: one more active=false signal of
\* record o (counted up to 2), stop returned for o, start succeeded for o
DownSignal(o) ==
    IF "downs" \in cap.log THEN [downs EXCEPT ![o] = Min(@ + 1, 2)] ELSE downs
StopReturned(o) ==
    IF "stopped" \in cap.log THEN [stopped EXCEPT ![o] = TRUE] ELSE stopped

\* what stop_forwarding returns
StopReturns(fid) == IF IsRegistered(fid) THEN "True" ELSE "False"

\* the connection dicts after stop closed the socket and channel of each listed one
ClosedConnections(o) ==
    [c \in Conns |->
        IF c \in fobj[o].connections
        THEN [conn[c] EXCEPT !.socket = "closed", !.channel = "closed"]
        ELSE conn[c]]

\* the record after stop: inactive, connection list replaced by an empty one
StoppedRecord(f) == [f EXCEPT !.active = FALSE, !.connections = {}]

\* the locked section of stop_forwarding
StopSection(fid) ==
    IF ~IsRegistered(fid)
    THEN /\ signal' = NoSignal
         /\ UNCHANGED <<fobj, lsock, conn, stopped, downs>>
    ELSE LET o == forwardings[fid] IN
         IF ~fobj[o].active
         THEN /\ signal' = NoSignal
              /\ stopped' = StopReturned(o)
              /\ UNCHANGED <<fobj, lsock, conn, downs>>
         ELSE /\ fobj' = [fobj EXCEPT ![o] = StoppedRecord(fobj[o])]
              /\ lsock' = IF fobj[o].server_socket # 0
                          THEN [lsock EXCEPT ![fobj[o].server_socket].st = "closed"]
                          ELSE lsock
              /\ conn' = ClosedConnections(o)
              /\ signal' = StatusSignal(o, FALSE)
              /\ stopped' = StopReturned(o)
              /\ downs' = DownSignal(o)

stop_forwarding(fid) ==
    /\ Unlocked
    /\ StopSection(fid)
    /\ Returns("stop", fid, StopReturns(fid))
    /\ UNCHANGED <<forwardings, nobj, thread, nrun, nconn, extBound, removing,
                   added, wrote>>

\* remove_forwarding up to the end of its call of stop_forwarding
remove_stop(fid) ==
    /\ Unlocked
    /\ removing = {}
    /\ StopSection(fid)
    /\ removing' = removing \cup {fid}
    /\ ThreadStep
    /\ UNCHANGED <<forwardings, nobj, thread, nrun, nconn, extBound, added, wrote>>

\* mutant: remove_forwarding that stops the forwarder and forgets the del
DeletedNothing(fid) == forwardings

\* the registry after `del self.forwardings[forwarding_id]`
Deleted(fid) == [forwardings EXCEPT ![fid] = 0]

\* the rest of remove_forwarding: the locked del, return True
remove_del(fid) ==
    /\ Unlocked
    /\ fid \in removing
    /\ removing' = removing \ {fid}
    /\ forwardings' = Deleted(fid)
    /\ added' = added \ {fid}
    /\ Returns("remove", fid, "True")
    /\ signal' = NoSignal
    /\ UNCHANGED <<fobj, nobj, lsock, thread, nrun, conn, nconn, extBound, wrote,
                   stopped, downs>>

---------------------------------------------------------------------------
(* The environment: another process takes or releases a listening address *)

ExternalBind(a) ==
    /\ ~AddrInUse(a)
    /\ extBound' = extBound \cup {a}
    /\ ThreadStep /\ signal' = NoSignal
    /\ UNCHANGED <<prog, added, wrote, stopped, downs>>

ExternalRelease(a) ==
    /\ a \in extBound
    /\ extBound' = extBound \ {a}
    /\ ThreadStep /\ signal' = NoSignal
    /\ UNCHANGED <<prog, added, wrote, stopped, downs>>

---------------------------------------------------------------------------
(* The accept threads: _local_forwarding_thread, _dynamic_forwarding_thread *)

\* the handler's `forwarding["error"] = str(e)` on the way to the outer except
ThreadError(o) == [fobj EXCEPT ![o].error = "thread"]

\* the thread reads forwarding["server_socket"] and calls setblocking(False),
\* which raises on a socket that was closed meanwhile
acc_init(r) ==
    /\ thread[r].pc = "init"
    /\ LET o == thread[r].fwd
           s == fobj[o].server_socket
       IN IF lsock[s].st = "open"
          THEN /\ thread' = [thread EXCEPT ![r].sock = s, ![r].pc = "check"]
               /\ UNCHANGED fobj
          ELSE /\ thread' = [thread EXCEPT ![r].sock = s, ![r].pc = "crash"]
               /\ fobj' = ThreadError(o)
    /\ ThreadStep /\ signal' = NoSignal
    /\ UNCHANGED <<forwardings, nobj, lsock, nrun, conn, nconn, extBound, removing,
                   added, wrote, stopped, downs>>

\* `while forwarding.get("active", False):`, and past the loop the close of the
\* thread's own listener
acc_check(r) ==
    /\ thread[r].pc = "check"
    /\ IF fobj[thread[r].fwd].active
       THEN /\ thread' = [thread EXCEPT ![r].pc = "select"]
            /\ UNCHANGED lsock
       ELSE /\ thread' = [thread EXCEPT ![r].pc = "done"]
            /\ lsock' = [lsock EXCEPT ![thread[r].sock].st = "closed"]
    /\ ThreadStep /\ signal' = NoSignal
    /\ UNCHANGED <<forwardings, fobj, nobj, nrun, conn, nconn, extBound, removing,
                   added, wrote, stopped, downs>>

\* select() of a listener that is closed: called after the close it raises
\* ValueError, which only the outer except catches; closed while it waits, it
\* times out or raises an OSError, and the loop goes round
acc_select_closed(r) ==
    /\ thread[r].pc = "select"
    /\ lsock[thread[r].sock].st = "closed"
    /\ \/ /\ thread' = [thread EXCEPT ![r].pc = "crash"]
          /\ fobj' = ThreadError(thread[r].fwd)
       \/ /\ thread' = [thread EXCEPT ![r].pc = "check"]
          /\ UNCHANGED fobj
    /\ ThreadStep /\ signal' = NoSignal
    /\ UNCHANGED <<forwardings, nobj, lsock, nrun, conn, nconn, extBound, removing,
                   added, wrote, stopped, downs>>

\* select() times out after a second with no client
acc_select_timeout(r) ==
    /\ thread[r].pc = "select"
    /\ lsock[thread[r].sock].st = "open"
    /\ thread' = [thread EXCEPT ![r].pc = "check"]
    /\ ThreadStep /\ signal' = NoSignal
    /\ UNCHANGED <<forwardings, fobj, nobj, lsock, nrun, conn, nconn, extBound,
                   removing, added, wrote, stopped, downs>>

\* the connection dict of a client just accepted by the thread of record o
Accepted(o, chan, pc) ==
    [fwd |-> o, socket |-> "open", channel |-> chan, bytes_sent |-> 0,
     bytes_received |-> 0, pc |-> pc, pend_dir |-> None, pend |-> 0, more |-> FALSE]

\* _local_forwarding_thread: accept() and open_channel(), which returns a
\* channel, returns None (the client is closed) or raises (outer except)
acc_accept_local(r) ==
    /\ thread[r].pc = "select"
    /\ lsock[thread[r].sock].st = "open"
    /\ fobj[thread[r].fwd].type = "local"
    /\ nconn < cap.conn
    /\ nconn' = nconn + 1
    /\ LET o == thread[r].fwd
           c == nconn + 1
       IN \/ /\ conn' = [conn EXCEPT ![c] = Accepted(o, "open", "new")]
             /\ thread' = [thread EXCEPT ![r].pc = "append", ![r].client = c]
             /\ UNCHANGED fobj
          \/ /\ conn' = [conn EXCEPT ![c] =
                            [Accepted(o, "none", "never") EXCEPT !.socket = "closed"]]
             /\ thread' = [thread EXCEPT ![r].pc = "check"]
             /\ UNCHANGED fobj
          \/ /\ conn' = [conn EXCEPT ![c] = Accepted(o, "none", "never")]
             /\ thread' = [thread EXCEPT ![r].pc = "crash"]
             /\ fobj' = ThreadError(o)
    /\ AcceptStep(nconn + 1, r) /\ signal' = NoSignal
    /\ UNCHANGED <<forwardings, nobj, lsock, nrun, extBound, removing, added, wrote,
                   stopped, downs>>

\* the record with connection c appended to its list
Appended(f, c) == [f EXCEPT !.connections = @ \cup {c}]

\* `with self.lock: forwarding["connections"].append(connection)`, then the
\* pump thread is started
acc_append(r) ==
    /\ Unlocked
    /\ thread[r].pc = "append"
    /\ LET o == thread[r].fwd
           c == thread[r].client
       IN /\ fobj' = [fobj EXCEPT ![o] = Appended(fobj[o], c)]
          /\ conn' = [conn EXCEPT ![c].pc = "loop"]
          /\ thread' = [thread EXCEPT ![r].pc = "check", ![r].client = 0]
    /\ ThreadStep /\ signal' = NoSignal
    /\ UNCHANGED <<forwardings, nobj, lsock, nrun, nconn, extBound, removing, added,
                   wrote, stopped, downs>>

\* _dynamic_forwarding_thread: accept() and the start of a SOCKS handler thread
acc_accept_dynamic(r) ==
    /\ thread[r].pc = "select"
    /\ lsock[thread[r].sock].st = "open"
    /\ fobj[thread[r].fwd].type = "dynamic"
    /\ nconn < cap.conn
    /\ nconn' = nconn + 1
    /\ conn' = [conn EXCEPT ![nconn + 1] = Accepted(thread[r].fwd, "none", "socks")]
    /\ thread' = [thread EXCEPT ![r].pc = "check"]
    /\ AcceptStep(nconn + 1, r) /\ signal' = NoSignal
    /\ UNCHANGED <<forwardings, fobj, nobj, lsock, nrun, extBound, removing, added,
                   wrote, stopped, downs>>

\* _internal_forwarding_thread: accept() and the start of a handler thread
acc_accept_internal(r) ==
    /\ thread[r].pc = "select"
    /\ lsock[thread[r].sock].st = "open"
    /\ fobj[thread[r].fwd].type = "internal"
    /\ nconn < cap.conn
    /\ nconn' = nconn + 1
    /\ conn' = [conn EXCEPT ![nconn + 1] = Accepted(thread[r].fwd, "none", "internal")]
    /\ thread' = [thread EXCEPT ![r].pc = "check"]
    /\ AcceptStep(nconn + 1, r) /\ signal' = NoSignal
    /\ UNCHANGED <<forwardings, fobj, nobj, lsock, nrun, extBound, removing, added,
                   wrote, stopped, downs>>

\* _handle_internal_connection: open_channel raises (the client socket is
\* closed), or its result, a channel or None, goes into the connection dict,
\* which is appended under the lock; the pump then runs in this thread (on a
\* None channel its setblocking raises: finally)
_handle_internal_connection(c) ==
    /\ conn[c].pc = "internal"
    /\ LET o == conn[c].fwd IN
       \/ /\ conn' = [conn EXCEPT ![c].socket = "closed", ![c].pc = "never"]
          /\ UNCHANGED fobj
       \/ /\ Unlocked
          /\ conn' = [conn EXCEPT ![c].channel = "open", ![c].pc = "loop"]
          /\ fobj' = [fobj EXCEPT ![o] = Appended(fobj[o], c)]
       \/ /\ Unlocked
          /\ conn' = [conn EXCEPT ![c].pc = "finally"]
          /\ fobj' = [fobj EXCEPT ![o] = Appended(fobj[o], c)]
    /\ ThreadStep /\ signal' = NoSignal
    /\ UNCHANGED <<forwardings, nobj, lsock, thread, nrun, nconn, extBound, removing,
                   added, wrote, stopped, downs>>

\* _handle_remote_connection, called by the transport, on its thread, for a
\* channel the server opened: connect() to the local target fails (the channel
\* is closed and the handler returns), or the connection dict is appended under
\* the lock and the pump runs in the calling thread
\* In the runs that follow the round trips, the handler first stops at its
\* `with self.lock:` (lock)
_handle_remote_connection(r) ==
    /\ thread[r].pc = "forwarded"
    /\ ~TransportBusy(thread[r].fwd)
    /\ nconn < cap.conn
    /\ nconn' = nconn + 1
    /\ LET o == thread[r].fwd
           c == nconn + 1
       IN \/ /\ conn' = [conn EXCEPT ![c] =
                    [Accepted(o, "closed", "never") EXCEPT !.socket = "none"]]
             /\ UNCHANGED <<fobj, thread>>
          \/ /\ "io" \notin cap.log
             /\ Unlocked
             /\ conn' = [conn EXCEPT ![c] = Accepted(o, "open", "loop")]
             /\ fobj' = [fobj EXCEPT ![o] = Appended(fobj[o], c)]
             /\ thread' = [thread EXCEPT ![r].pc = "handler", ![r].client = c]
          \/ /\ "io" \in cap.log
             /\ conn' = [conn EXCEPT ![c] = Accepted(o, "open", "append")]
             /\ thread' = [thread EXCEPT ![r].pc = "lock", ![r].client = c]
             /\ UNCHANGED fobj
    /\ AcceptStep(nconn + 1, r) /\ signal' = NoSignal
    /\ UNCHANGED <<forwardings, nobj, lsock, nrun, extBound, removing, added,
                   wrote, stopped, downs>>

\* the handler's `with self.lock: forwarding["connections"].append(connection)`,
\* then _handle_forwarding in the same thread
remote_append(r) ==
    /\ Unlocked
    /\ thread[r].pc = "lock"
    /\ LET o == thread[r].fwd
           c == thread[r].client
       IN /\ fobj' = [fobj EXCEPT ![o] = Appended(fobj[o], c)]
          /\ conn' = [conn EXCEPT ![c].pc = "loop"]
          /\ thread' = [thread EXCEPT ![r].pc = "handler"]
    /\ ThreadStep /\ signal' = NoSignal
    /\ UNCHANGED <<forwardings, nobj, lsock, nrun, nconn, extBound, removing, added,
                   wrote, stopped, downs>>

\* _handle_forwarding has returned: so does the handler, to the transport
remote_handler_return(r) ==
    /\ thread[r].pc = "handler"
    /\ conn[thread[r].client].pc = "done"
    /\ thread' = [thread EXCEPT ![r].pc = "forwarded", ![r].client = 0]
    /\ ThreadStep /\ signal' = NoSignal
    /\ UNCHANGED <<forwardings, fobj, nobj, lsock, nrun, conn, nconn, extBound,
                   removing, added, wrote, stopped, downs>>

\* the outer except: `with self.lock: forwarding["active"] = False`
acc_crash(r) ==
    /\ Unlocked
    /\ thread[r].pc = "crash"
    /\ fobj' = [fobj EXCEPT ![thread[r].fwd].active = FALSE]
    /\ thread' = [thread EXCEPT ![r].pc = "emit"]
    /\ ThreadStep /\ signal' = NoSignal
    /\ UNCHANGED <<forwardings, nobj, lsock, nrun, conn, nconn, extBound, removing,
                   added, wrote, stopped, downs>>

\* the outer except: forwarding_status_changed.emit(forwarding, False)
acc_emit(r) ==
    /\ thread[r].pc = "emit"
    /\ signal' = StatusSignal(thread[r].fwd, FALSE)
    /\ downs' = DownSignal(thread[r].fwd)
    /\ thread' = [thread EXCEPT ![r].pc = IF "sync" \in cap.log THEN "slot" ELSE "done"]
    /\ ThreadStep
    /\ UNCHANGED <<forwardings, fobj, nobj, lsock, nrun, conn, nconn, extBound,
                   removing, added, wrote, stopped>>

\* the slot of an observer connected directly to forwarding_status_changed,
\* run by the emitting thread inside emit(): it calls get_forwarding_status,
\* which enters `with self.lock:`, gets its answer and returns to the emitter,
\* an accept thread in its outer except or a start_forwarding call
observer_reads ==
    /\ Unlocked
    /\ \/ /\ \E r \in Runs :
                /\ thread[r].pc = "slot"
                /\ thread' = [thread EXCEPT ![r].pc = "done"]
          /\ last' = NoCall
          /\ UNCHANGED starting
       \/ /\ starting.emit
          /\ last' = Call("start", starting.id, "True")
          /\ starting' = NoStart
          /\ UNCHANGED thread
    /\ signal' = NoSignal
    /\ UNCHANGED <<forwardings, fobj, nobj, lsock, nrun, conn, nconn, extBound,
                   removing, added, wrote, stopped, downs, cap, sshvars, ups, ofRun,
                   socks, traffic, rule>>

---------------------------------------------------------------------------
(* _handle_socks_connection up to its call of _handle_forwarding *)

\* PortForwarder._handle_socks_connection up to _handle_forwarding: only
\* CONNECT to an IPv4 address is served; every other request closes the socket
\* with no reply; the success reply is sent whatever open_channel returned (on
\* None the pump's setblocking raises and its finally closes the socket)
PfSocksHandled(req, chan) ==
    IF req.ver # 5 THEN Handled(<<>>, FALSE, "closed", "none")
    ELSE IF req.cmd # 1 \/ req.atyp # 1 \/ ~req.whole
    THEN Handled(<<SocksMethodReply>>, FALSE, "closed", "none")
    ELSE IF chan = "channel"
    THEN Handled(<<SocksMethodReply, SocksReply(0)>>, TRUE, "open", "open")
    ELSE IF chan = "None"
    THEN Handled(<<SocksMethodReply, SocksReply(0)>>, TRUE, "closed", "none")
    ELSE Handled(<<SocksMethodReply>>, TRUE, "closed", "none")

\* the handler thread of connection c; the connection dict is not put on the
\* record's list
socks_handler(c) ==
    /\ conn[c].pc = "socks"
    /\ \E req \in SocksRequests, chan \in ChannelOutcomes :
          LET r == PfSocksHandled(req, chan) IN
          /\ conn' = [conn EXCEPT ![c].socket = r.socket, ![c].channel = r.channel,
                                  ![c].pc = IF r.channel = "open" THEN "loop"
                                            ELSE "never"]
          /\ socks' = IF "socks" \in cap.log
                      THEN [socks EXCEPT ![c] = [req |-> req, reply |-> r.reply,
                                                 opened |-> r.opened]]
                      ELSE socks
    /\ last' = NoCall /\ signal' = NoSignal
    /\ UNCHANGED <<forwardings, fobj, nobj, lsock, thread, nrun, nconn, extBound,
                   removing, added, wrote, stopped, downs, cap, sshvars, starting,
                   ups, ofRun, traffic, rule>>

---------------------------------------------------------------------------
(* The byte pump: _handle_forwarding *)

PumpUnchanged ==
    UNCHANGED <<forwardings, nobj, lsock, thread, nrun, nconn, extBound, removing,
                added, stopped, downs>>

\* mutant: a pump loop that never reads the active flag
pump_check_always(c) ==
    /\ conn[c].pc = "loop"
    /\ conn' = [conn EXCEPT ![c].pc = "select"]
    /\ ThreadStep /\ signal' = NoSignal
    /\ PumpUnchanged /\ UNCHANGED <<fobj, wrote>>

\* `while forwarding.get("active", False):`
pump_check(c) ==
    /\ conn[c].pc = "loop"
    /\ conn' = [conn EXCEPT ![c].pc =
                   IF fobj[conn[c].fwd].active THEN "select" ELSE "finally"]
    /\ ThreadStep /\ signal' = NoSignal
    /\ PumpUnchanged /\ UNCHANGED <<fobj, wrote>>

\* select() on an endpoint stop_forwarding closed raises; so do a recv that
\* fails and any other I/O error; a zero-length read breaks out of the loop
pump_exit(c) ==
    /\ conn[c].pc \in {"select", "chan"}
    /\ conn' = [conn EXCEPT ![c].pc = "finally"]
    /\ ThreadStep /\ signal' = NoSignal
    /\ PumpUnchanged /\ UNCHANGED <<fobj, wrote>>

\* select() times out after a second with nothing to read
pump_idle(c) ==
    /\ conn[c].pc = "select"
    /\ conn[c].socket = "open" /\ conn[c].channel = "open"
    /\ conn' = [conn EXCEPT ![c].pc = "loop"]
    /\ ThreadStep /\ signal' = NoSignal
    /\ PumpUnchanged /\ UNCHANGED <<fobj, wrote>>

\* the history of bytes written after n bytes went out whole in direction d
WroteAll(w, d, n) ==
    IF d = "sent"
    THEN [w EXCEPT !.chan = @ + n, !.chan_full = @ + n]
    ELSE [w EXCEPT !.sock = @ + n, !.sock_full = @ + n]

\* the history after sendall raised with m bytes of its chunk written
WrotePart(w, d, m) ==
    IF d = "sent" THEN [w EXCEPT !.chan = @ + m] ELSE [w EXCEPT !.sock = @ + m]

Written(w, d) == IF d = "sent" THEN w.chan ELSE w.sock

\* one direction of an iteration: recv(4096) returns n bytes and sendall writes
\* them all, or raises after 0 < m < n of them (pump_exit: after none)
Transfer(c, d, more) ==
    LET o == conn[c].fwd IN
    \E n \in 1..MaxChunk :
        /\ Written(wrote[o], d) + n <= cap.bytes
        /\ \/ /\ conn' = [conn EXCEPT ![c].pc = "update", ![c].pend_dir = d,
                                      ![c].pend = n, ![c].more = more]
              /\ wrote' = [wrote EXCEPT ![o] = WroteAll(@, d, n)]
           \/ \E m \in 1..(n - 1) :
                /\ conn' = [conn EXCEPT ![c].pc = "finally"]
                /\ wrote' = [wrote EXCEPT ![o] = WrotePart(@, d, m)]

\* `if socket_obj in r:` data from the local socket goes to the channel;
\* more: the channel is in r too
pump_from_socket(c) ==
    /\ conn[c].pc = "select"
    /\ conn[c].socket = "open" /\ conn[c].channel = "open"
    /\ \E more \in BOOLEAN : Transfer(c, "sent", more)
    /\ ThreadStep /\ signal' = NoSignal
    /\ PumpUnchanged /\ UNCHANGED fobj

\* `if channel in r:` data from the channel goes to the local socket
pump_from_channel(c) ==
    /\ conn[c].pc \in {"select", "chan"}
    /\ conn[c].socket = "open" /\ conn[c].channel = "open"
    /\ Transfer(c, "received", FALSE)
    /\ ThreadStep /\ signal' = NoSignal
    /\ PumpUnchanged /\ UNCHANGED fobj

\* the counters after `+= len(data)` on the connection dict and on the record
CountedConn(k, d, n) ==
    IF d = "sent" THEN [k EXCEPT !.bytes_sent = @ + n]
    ELSE [k EXCEPT !.bytes_received = @ + n]

\* mutants: the aggregate counter is not updated; only sent bytes are aggregated
CountedRecordForgotten(f, d, n) == f
CountedRecordSentOnly(f, d, n) ==
    IF d = "sent" THEN [f EXCEPT !.bytes_sent = @ + n] ELSE f

\* mutant: the update writes back a counter read before the other pumps' updates
CountedRecordStale(f, d, n) ==
    IF d = "sent" THEN [f EXCEPT !.bytes_sent = n] ELSE [f EXCEPT !.bytes_received = n]

CountedRecord(f, d, n) ==
    IF d = "sent" THEN [f EXCEPT !.bytes_sent = @ + n]
    ELSE [f EXCEPT !.bytes_received = @ + n]

\* `with self.lock:` both counters grow by len(data)
pump_update(c) ==
    /\ Unlocked
    /\ conn[c].pc = "update"
    /\ conn' = [conn EXCEPT ![c] =
                   [CountedConn(conn[c], conn[c].pend_dir, conn[c].pend)
                       EXCEPT !.pc = "emit"]]
    /\ fobj' = [fobj EXCEPT ![conn[c].fwd] =
                   CountedRecord(@, conn[c].pend_dir, conn[c].pend)]
    /\ ThreadStep /\ signal' = NoSignal
    /\ PumpUnchanged /\ UNCHANGED wrote

\* the sums of the deltas emitted after one more signal of n bytes
Emitted(t, d, n) ==
    IF d = "sent" THEN [t EXCEPT !.sent = @ + n] ELSE [t EXCEPT !.received = @ + n]

\* forwarding_traffic.emit(forwarding, len(data), 0) or (forwarding, 0, len(data));
\* then the channel's part of the iteration, or `if channel.closed: break`
pump_emit(c) ==
    /\ conn[c].pc = "emit"
    /\ signal' = IF conn[c].pend_dir = "sent"
                 THEN TrafficSignal(conn[c].fwd, conn[c].pend, 0)
                 ELSE TrafficSignal(conn[c].fwd, 0, conn[c].pend)
    /\ conn' = [conn EXCEPT ![c].pend_dir = None, ![c].pend = 0, ![c].more = FALSE,
                            ![c].pc = IF conn[c].more THEN "chan"
                                      ELSE IF conn[c].channel = "closed" THEN "finally"
                                      ELSE "loop"]
    /\ traffic' = IF "traffic" \in cap.log
                  THEN [traffic EXCEPT ![conn[c].fwd] = Emitted(@, conn[c].pend_dir,
                                                                conn[c].pend)]
                  ELSE traffic
    /\ last' = NoCall
    /\ UNCHANGED <<cap, sshvars, starting, ups, ofRun, socks, rule>>
    /\ PumpUnchanged /\ UNCHANGED <<fobj, wrote>>

\* mutant: finally leaves the connection dict on the list
UnlistedNot(f, c) == f

\* the record without connection c on its list
Unlisted(f, c) == [f EXCEPT !.connections = @ \ {c}]

\* finally: both endpoints are closed and, under the lock, the connection dict
\* is taken off the record's list if it is on it
pump_finally(c) ==
    /\ Unlocked
    /\ conn[c].pc = "finally"
    /\ conn' = [conn EXCEPT ![c].socket = "closed",
                            ![c].channel = IF @ = "none" THEN "none" ELSE "closed",
                            ![c].pc = "done"]
    /\ fobj' = [fobj EXCEPT ![conn[c].fwd] = Unlisted(@, c)]
    /\ ThreadStep /\ signal' = NoSignal
    /\ PumpUnchanged /\ UNCHANGED wrote

---------------------------------------------------------------------------
(* SSHManager: the registry of clients and of forwarding dicts. Its methods take
   no lock; they are called from the GUI thread, one call at a time, and its
   threads share only forwarding["active"] with them. *)

SshUnchanged == UNCHANGED <<pfvars, extBound, auth>>

SshCall(op, k, cid, ret, was, were) ==
    [op |-> op, client |-> k, id |-> cid, ret |-> ret,
     again |-> ssh_last.op = op /\ ssh_last.client = k, was |-> was, were |-> were]

\* the positions of dict d that hold key fid
SshPositions(d, fid) == {n \in 1..Len(d) : d[n].id = fid}
\* `forwarding_id in self.forwardings`
SshRegistered(fid) == SshPositions(ssh_forwardings, fid) # {}
\* `self.forwardings[forwarding_id] = forwarding`: a key already present keeps
\* its place
SshStored(d, fid, o) ==
    IF SshPositions(d, fid) # {}
    THEN [n \in 1..Len(d) |-> IF d[n].id = fid THEN [id |-> fid, fwd |-> o] ELSE d[n]]
    ELSE Append(d, [id |-> fid, fwd |-> o])
\* `del self.forwardings[forwarding_id]`
SshDeleted(d, fid) == SelectSeq(d, LAMBDA e : e.id # fid)

\* the slot of the next object allocated on a heap
FreeClient == CHOOSE k \in Clients : client[k].st = "none" /\ \A j \in 1..(k-1) : client[j].st # "none"
FreeFwd == CHOOSE o \in Fwds : sfwd[o].type = None /\ \A j \in 1..(o-1) : sfwd[j].type # None

\* mutant: the up signal is emitted before client.connect raises
ConnectFailedEmitted(cid) ==
    /\ emitted' = <<ConnectionSignal(cid, TRUE)>>
    /\ ssh_last' = SshCall("connect", 0, cid, None, clients[cid], {})
    /\ UNCHANGED <<clients, client>>

\* connect: the except branch, `return None`
ConnectFailed(cid) ==
    /\ emitted' = <<>>
    /\ ssh_last' = SshCall("connect", 0, cid, None, clients[cid], {})
    /\ UNCHANGED <<clients, client>>

\* connect: client.connect returned: store the client, emit, return it
ConnectStored(cid) ==
    /\ \E k \in 1..cap.client : client[k].st = "none"
    /\ LET k == FreeClient IN
        /\ client' = [client EXCEPT ![k] = [id |-> cid, st |-> "open"]]
        /\ clients' = [clients EXCEPT ![cid] = k]
        /\ emitted' = <<ConnectionSignal(cid, TRUE)>>
        /\ ssh_last' = SshCall("connect", k, cid, "client", clients[cid], {})

\* the host is unreachable, the handshake fails or authentication is refused;
\* or the server accepts
connect(host, port, username) ==
    /\ \/ ConnectFailed(ClientId(host, port, username))
       \/ ConnectStored(ClientId(host, port, username))
    /\ UNCHANGED <<ssh_forwardings, sfwd, hand>>
    /\ SshUnchanged

\* os.path.exists(key_path)
KeyFileExists(key_path) == key_path \in {"id_rsa", "garbled"}

\* RSAKey.from_private_key_file raises
KeyFileRaises(key_path) == key_path = "garbled"

\* the methods client.connect(**connect_kwargs) offers the server: pkey if
\* key_path names a file, else the password if one is given; and the keys
\* paramiko looks for by itself
Offered(password, key_path) ==
    (IF key_path # "" /\ KeyFileExists(key_path) THEN {"pkey"}
     ELSE IF password # "" THEN {"password"}
     ELSE {}) \cup {"agent"}

\* connect with its credentials, to a server that accepts the methods of
\* accepts: reading the key file or client.connect raises, or the client is
\* stored
connect_by(host, port, username, password, key_path) ==
    /\ \E accepts \in SUBSET Methods :
          /\ auth' = [password |-> password, key_path |-> key_path,
                       accepts |-> accepts]
          /\ IF \/ key_path # "" /\ KeyFileExists(key_path) /\ KeyFileRaises(key_path)
                \/ Offered(password, key_path) \cap accepts = {}
             THEN ConnectFailed(ClientId(host, port, username))
             ELSE ConnectStored(ClientId(host, port, username))
    /\ UNCHANGED <<ssh_forwardings, sfwd, hand>>
    /\ UNCHANGED <<pfvars, extBound>>

\* the dict after `forwarding["active"] = False`
SshStoppedDict(f) == [f EXCEPT !.active = FALSE]

\* the id stop_forwarding formats from the dict
SshIdOf(f) == SshForwardingId(f.type, f.addr[1], f.addr[2])

\* stop_forwarding applied to the dicts of sequence q, one after the other:
\* the registry, the heap and the signals emitted
RECURSIVE StopAll(_, _, _, _)
StopAll(q, d, heap, sig) ==
    IF q = <<>> THEN [d |-> d, heap |-> heap, sig |-> sig]
    ELSE LET o == Head(q) IN
         StopAll(Tail(q), SshDeleted(d, SshIdOf(heap[o])),
                 [heap EXCEPT ![o] = SshStoppedDict(@)],
                 Append(sig, ForwardingSignal(o, FALSE)))

\* mutant: stop_forwarding that also closes the client of the forwarding
ssh_stop_closing(o) ==
    /\ sfwd[o].type # None
    /\ LET r == StopAll(<<o>>, ssh_forwardings, sfwd, <<>>) IN
        /\ ssh_forwardings' = r.d
        /\ sfwd' = r.heap
        /\ emitted' = r.sig
    /\ ssh_last' = SshCall("stop", sfwd[o].client, NoClientId, None, 0, {})
    /\ client' = [client EXCEPT ![sfwd[o].client].st = "closed"]
    /\ UNCHANGED <<clients, hand>>
    /\ SshUnchanged

\* stop_forwarding(forwarding)
ssh_stop_forwarding(o) ==
    /\ sfwd[o].type # None
    /\ LET r == StopAll(<<o>>, ssh_forwardings, sfwd, <<>>) IN
        /\ ssh_forwardings' = r.d
        /\ sfwd' = r.heap
        /\ emitted' = r.sig
    /\ ssh_last' = SshCall("stop", sfwd[o].client, NoClientId, None, 0, {})
    /\ UNCHANGED <<clients, client, hand>>
    /\ SshUnchanged

\* the dict a start call builds for client k
SshNewForwarding(type, k, host, port) ==
    [type |-> type, client |-> k, addr |-> <<host, port>>, active |-> TRUE,
     pc |-> IF type = "remote" THEN "none" ELSE "bind", sock |-> "none"]

\* a start call that built its dict: thread started, dict stored, signal
\* emitted, dict returned
SshStarted(type, k, host, port) ==
    /\ \E o \in 1..cap.fwd : sfwd[o].type = None
    /\ LET o == FreeFwd IN
        /\ sfwd' = [sfwd EXCEPT ![o] = SshNewForwarding(type, k, host, port)]
        /\ ssh_forwardings' =
               SshStored(ssh_forwardings, SshForwardingId(type, host, port), o)
        /\ emitted' = <<ForwardingSignal(o, TRUE)>>
    /\ ssh_last' = SshCall("start", k, NoClientId, "forwarding", 0, {})
    /\ UNCHANGED <<clients, client, hand>>
    /\ SshUnchanged

\* a start call whose except branch returns None
SshStartFailed(k) ==
    /\ emitted' = <<>>
    /\ ssh_last' = SshCall("start", k, NoClientId, None, 0, {})
    /\ UNCHANGED <<clients, client, ssh_forwardings, sfwd, hand>>
    /\ SshUnchanged

start_local_forwarding(k, local_host, local_port) ==
    /\ client[k].st # "none"
    /\ SshStarted("local", k, local_host, local_port)

start_dynamic_forwarding(k, bind_host, bind_port) ==
    /\ client[k].st # "none"
    /\ SshStarted("dynamic", k, bind_host, bind_port)

\* request_port_forward raises on a client without an active transport, and
\* when the server refuses the request
start_remote_forwarding(k, remote_host, remote_port) ==
    /\ client[k].st # "none"
    /\ \/ SshStartFailed(k)
       \/ client[k].st = "open" /\ SshStarted("remote", k, remote_host, remote_port)

\* mutant: disconnect looks the client up by the identity it was connected for
ClientIdByName(k) == client[k].id

\* the client_id disconnect finds for the client, None when no entry holds it
ClientIdOf(k) ==
    IF \E i \in ClientIds : clients[i] = k
    THEN CHOOSE i \in ClientIds : clients[i] = k ELSE NoClientId

\* forwardings_to_stop: the ids whose dict belongs to the client, in dict order
ForwardingsToStop(k) ==
    LET mine == SelectSeq(ssh_forwardings, LAMBDA e : sfwd[e.fwd].client = k)
    IN  [n \in 1..Len(mine) |-> mine[n].fwd]

\* the dicts started on client k that are active
ActiveOf(k) == {o \in Fwds : sfwd[o].type # None /\ sfwd[o].client = k /\ sfwd[o].active}

\* disconnect(client)
disconnect(k) ==
    /\ client[k].st # "none"
    /\ LET cid == ClientIdOf(k)
           r == IF cid # NoClientId
                THEN StopAll(ForwardingsToStop(k), ssh_forwardings, sfwd, <<>>)
                ELSE [d |-> ssh_forwardings, heap |-> sfwd, sig |-> <<>>]
       IN
        /\ ssh_forwardings' = r.d
        /\ sfwd' = r.heap
        /\ client' = [client EXCEPT ![k].st = "closed"]
        /\ clients' = IF cid # NoClientId THEN [clients EXCEPT ![cid] = 0] ELSE clients
        /\ emitted' = IF cid # NoClientId
                      THEN Append(r.sig, ConnectionSignal(cid, FALSE)) ELSE r.sig
        /\ ssh_last' = SshCall("disconnect", k, cid, None, clients[client[k].id], ActiveOf(k))
    /\ UNCHANGED hand
    /\ SshUnchanged

---------------------------------------------------------------------------
(* SSHManager: the accept threads and the connection handlers *)

\* an address some listener holds: PortForwarder's, another process's, or an
\* accept thread's of SSHManager
SshAddrInUse(a) ==
    \/ AddrInUse(a)
    \/ \E o \in Fwds : sfwd[o].sock = "open" /\ sfwd[o].addr = a

SshThreadStep ==
    /\ emitted' = <<>>
    /\ ssh_last' = NoSshCall
    /\ UNCHANGED <<clients, client, ssh_forwardings>>
    /\ SshUnchanged

\* socket(), bind(), listen(), setblocking(); a refused bind ends the thread in
\* its outer except: forwarding["active"] = False
ssh_bind(o) ==
    /\ sfwd[o].pc = "bind"
    /\ sfwd' = IF SshAddrInUse(sfwd[o].addr)
               THEN [sfwd EXCEPT ![o].active = FALSE, ![o].pc = "done"]
               ELSE [sfwd EXCEPT ![o].sock = "open", ![o].pc = "check"]
    /\ UNCHANGED hand
    /\ SshThreadStep

\* `while forwarding.get("active", False)`
ssh_check(o) ==
    /\ sfwd[o].pc = "check"
    /\ sfwd' = [sfwd EXCEPT ![o].pc = IF sfwd[o].active THEN "select" ELSE "close"]
    /\ UNCHANGED hand
    /\ SshThreadStep

\* select returns after a second with nothing to accept
ssh_select_timeout(o) ==
    /\ sfwd[o].pc = "select"
    /\ sfwd' = [sfwd EXCEPT ![o].pc = "check"]
    /\ UNCHANGED hand
    /\ SshThreadStep

FreeHand == CHOOSE h \in Hands : hand[h].pc = "none" /\ \A j \in 1..(h-1) : hand[j].pc # "none"

\* accept() and the start of the handler thread of the accepted client
ssh_accept(o) ==
    /\ sfwd[o].pc = "select"
    /\ \E h \in 1..cap.hand : hand[h].pc = "none"
    /\ hand' = [hand EXCEPT ![FreeHand] =
                   [NoHand EXCEPT !.fwd = o, !.socket = "open", !.pc = "handle"]]
    /\ sfwd' = [sfwd EXCEPT ![o].pc = "check"]
    /\ SshThreadStep

\* `server_socket.close()` after the loop
ssh_close(o) ==
    /\ sfwd[o].pc = "close"
    /\ sfwd' = [sfwd EXCEPT ![o].sock = "closed", ![o].pc = "done"]
    /\ UNCHANGED hand
    /\ SshThreadStep

\* what open_channel can do on the transport the dict holds: anything on a
\* live transport, only failures on a closed or lost one
ChannelOutcomesOf(o) ==
    IF client[sfwd[o].client].st = "open" THEN ChannelOutcomes ELSE {"None", "raise"}

\* _handle_local_connection up to _forward_data: a channel, or the client
\* socket is closed (channel is None; except)
SshLocalHandled(chan) ==
    IF chan = "channel" THEN Handled(<<>>, TRUE, "open", "open")
    ELSE Handled(<<>>, TRUE, "closed", "none")

\* SSHManager._handle_socks_connection up to _forward_data
SshSocksHandled(req, chan) ==
    IF req.ver # 5 THEN Handled(<<>>, FALSE, "closed", "none")
    ELSE IF req.cmd # 1
    THEN Handled(<<SocksMethodReply, SocksReply(7)>>, FALSE, "closed", "none")
    ELSE IF req.atyp \notin {1, 3, 4}
    THEN Handled(<<SocksMethodReply, SocksReply(8)>>, FALSE, "closed", "none")
    ELSE IF ~req.whole
    THEN Handled(<<SocksMethodReply>>, FALSE, "closed", "none")
    ELSE IF chan = "channel"
    THEN Handled(<<SocksMethodReply, SocksReply(0)>>, TRUE, "open", "open")
    ELSE IF chan = "None"
    THEN Handled(<<SocksMethodReply, SocksReply(4)>>, TRUE, "closed", "none")
    ELSE Handled(<<SocksMethodReply>>, TRUE, "closed", "none")

\* the handler thread with what it did: in _forward_data, or returned
SshHandlerDone(h, req, r) ==
    [hand[h] EXCEPT !.req = req, !.reply = r.reply, !.opened = r.opened,
                    !.socket = r.socket, !.channel = r.channel,
                    !.pc = IF r.channel = "open" THEN "loop" ELSE "done"]

ssh_handle_local_connection(h) ==
    /\ hand[h].pc = "handle"
    /\ sfwd[hand[h].fwd].type = "local"
    /\ \E chan \in ChannelOutcomesOf(hand[h].fwd) :
          hand' = [hand EXCEPT ![h] = SshHandlerDone(h, NoRequest, SshLocalHandled(chan))]
    /\ UNCHANGED sfwd
    /\ SshThreadStep

ssh_handle_socks_connection(h) ==
    /\ hand[h].pc = "handle"
    /\ sfwd[hand[h].fwd].type = "dynamic"
    /\ \E req \in SocksRequests, chan \in ChannelOutcomesOf(hand[h].fwd) :
          hand' = [hand EXCEPT ![h] = SshHandlerDone(h, req, SshSocksHandled(req, chan))]
    /\ UNCHANGED sfwd
    /\ SshThreadStep

\* a recv of the SOCKS handler finds nothing to read and its client sends no
\* more: no timeout is set on the accepted socket, the call does not return
\* (where the accepted socket inherits the listener's non-blocking mode the
\* recv raises at once instead, which closes the socket as a short request
\* does)
ssh_recv_blocks(h) ==
    /\ hand[h].pc = "handle"
    /\ sfwd[hand[h].fwd].type = "dynamic"
    /\ hand' = [hand EXCEPT ![h].pc = "recv"]
    /\ UNCHANGED sfwd
    /\ SshThreadStep

\* _forward_data: `while True:` calls select([sock, chan], [], [], 1)
ssh_forward_select(h) ==
    /\ hand[h].pc = "loop"
    /\ hand' = [hand EXCEPT ![h].pc = "wait"]
    /\ UNCHANGED sfwd
    /\ SshThreadStep

\* select returns after a second with nothing readable: the next iteration.
\* The channel of a client that was closed or lost reads as EOF
ssh_forward_timeout(h) ==
    /\ hand[h].pc = "wait"
    /\ hand[h].socket = "open" /\ hand[h].channel = "open"
    /\ client[sfwd[hand[h].fwd].client].st = "open"
    /\ hand' = [hand EXCEPT ![h].pc = "loop"]
    /\ UNCHANGED sfwd
    /\ SshThreadStep

\* _forward_data leaves its loop (EOF, closed channel, error); finally closes
\* the socket and the channel
ssh_forward_data(h) ==
    /\ hand[h].pc \in {"loop", "wait"}
    /\ hand' = [hand EXCEPT ![h].socket = "closed", ![h].channel = "closed", ![h].pc = "done"]
    /\ UNCHANGED sfwd
    /\ SshThreadStep

\* the network drops or the server closes the connection of a client
transport_lost(k) ==
    /\ client[k].st = "open"
    /\ client' = [client EXCEPT ![k].st = "lost"]
    /\ emitted' = <<>>
    /\ ssh_last' = NoSshCall
    /\ UNCHANGED <<clients, ssh_forwardings, sfwd, hand>>
    /\ SshUnchanged

---------------------------------------------------------------------------
\* the ids callers pass: those of the kinds the run adds
IdInputs == {i \in Ids : i[1] \in cap.kinds /\ i[3] \in Ports}

Registry ==
    \/ \E t \in TypeInputs \ (Kinds \ cap.kinds), p \in Ports :
          add_forwarding(t, ConfigOf(t, p))
    \/ \E i \in IdInputs : start_forwarding(i)
    \/ \E i \in IdInputs : stop_forwarding(i)
    \/ \E i \in IdInputs : remove_stop(i)
    \/ \E i \in IdInputs : remove_del(i)

Environment ==
    \/ \E a \in Addrs : ExternalBind(a)
    \/ \E a \in Addrs : ExternalRelease(a)

AcceptLoop ==
    \/ \E r \in Runs : acc_init(r)
    \/ \E r \in Runs : acc_check(r)
    \/ \E r \in Runs : acc_select_closed(r)
    \/ \E r \in Runs : acc_select_timeout(r)
    \/ \E r \in Runs : acc_crash(r)
    \/ \E r \in Runs : acc_emit(r)

Connections ==
    \/ \E r \in Runs : acc_accept_local(r)
    \/ \E r \in Runs : acc_append(r)
    \/ \E r \in Runs : acc_accept_dynamic(r)
    \/ \E c \in Conns : socks_handler(c)
    \/ \E c \in Conns : pump_check(c)
    \/ \E c \in Conns : pump_exit(c)
    \/ \E c \in Conns : pump_idle(c)
    \/ \E c \in Conns : pump_from_socket(c)
    \/ \E c \in Conns : pump_from_channel(c)
    \/ \E c \in Conns : pump_update(c)
    \/ \E c \in Conns : pump_emit(c)
    \/ \E c \in Conns : pump_finally(c)


SshRegistry ==
    \/ \E u \in Users : connect(Host, SshPort, u)
    \/ \E k \in Clients : disconnect(k)
    \/ \E k \in Clients, p \in Ports : start_local_forwarding(k, Host, p)
    \/ \E k \in Clients, p \in Ports : start_remote_forwarding(k, Host, p)
    \/ \E k \in Clients, p \in Ports : start_dynamic_forwarding(k, Host, p)
    \/ \E o \in Fwds : ssh_stop_forwarding(o)

SshAcceptLoop ==
    \/ \E o \in Fwds : ssh_bind(o)
    \/ \E o \in Fwds : ssh_check(o)
    \/ \E o \in Fwds : ssh_select_timeout(o)
    \/ \E o \in Fwds : ssh_close(o)

SshConnections ==
    \/ \E o \in Fwds : ssh_accept(o)
    \/ \E h \in Hands : ssh_handle_local_connection(h)
    \/ \E h \in Hands : ssh_handle_socks_connection(h)
    \/ \E h \in Hands : ssh_forward_data(h)

SshEnvironment == \E k \in Clients : transport_lost(k)

\* SSHManager with its accept threads and the network
NextSSH == SshRegistry \/ SshAcceptLoop \/ SshEnvironment

\* SSHManager with its accept threads and the clients of its listeners
NextSocks == SshRegistry \/ SshAcceptLoop \/ SshConnections

\* the connections of the remote and the internal kind
OtherKinds ==
    \/ start_emit
    \/ \E r \in Runs : acc_accept_internal(r)
    \/ \E c \in Conns : _handle_internal_connection(c)
    \/ \E r \in Runs : _handle_remote_connection(r)
    \/ \E r \in Runs : remote_handler_return(r)

\* the registry, its accept threads, clients and pumps
Next == Registry \/ AcceptLoop \/ Connections

\* the registry and its accept threads with other processes taking the address
NextLife == Registry \/ Environment \/ AcceptLoop

Spec == Init /\ [][Next]_vars

SpecConns == InitConns /\ [][Next]_vars

SpecLife == InitLife /\ [][NextLife]_vars

\* a SOCKS proxy and a local forwarder with the requests their clients send
InitProxy ==
    /\ cap = [obj |-> ProxyObj, run |-> ProxyRun, conn |-> ProxyConn,
              log |-> {"socks"}, client |-> 0, fwd |-> 0, hand |-> 0,
              kinds |-> {"local", "dynamic"}, bytes |-> ProxyBytes]
    /\ Fresh

SpecProxy == InitProxy /\ [][Next]_vars

\* the four kinds of forwarder
NextKinds == Next \/ OtherKinds

InitKinds ==
    /\ cap = [obj |-> KindObj, run |-> KindRun, conn |-> KindConn, log |-> {"runs"},
              client |-> 0, fwd |-> 0, hand |-> 0, kinds |-> Kinds, bytes |-> KindBytes]
    /\ Fresh

SpecKinds == InitKinds /\ [][NextKinds]_vars

\* a remote forwarder, with the port given or left to the server, the round
\* trips of its start and the channels the server opens
AnyPort ==
    \/ \E p \in Ports : add_forwarding("remote", AnyPortConfig(p))
    \/ \E p \in Ports : start_forwarding(ForwardingId("remote", AnyPortConfig(p)))
    \/ \E p \in Ports : stop_forwarding(ForwardingId("remote", AnyPortConfig(p)))

RemoteConnections ==
    \/ start_reply
    \/ \E r \in Runs : _handle_remote_connection(r)
    \/ \E r \in Runs : remote_append(r)
    \/ \E r \in Runs : remote_handler_return(r)
    \/ \E c \in Conns : pump_check(c)
    \/ \E c \in Conns : pump_exit(c)
    \/ \E c \in Conns : pump_idle(c)
    \/ \E c \in Conns : pump_from_socket(c)
    \/ \E c \in Conns : pump_from_channel(c)
    \/ \E c \in Conns : pump_update(c)
    \/ \E c \in Conns : pump_emit(c)
    \/ \E c \in Conns : pump_finally(c)

NextRemote == Registry \/ AnyPort \/ RemoteConnections

InitRemote ==
    /\ cap = [obj |-> RemoteObj, run |-> RemoteRun, conn |-> RemoteConn,
              log |-> {"io"}, client |-> 0, fwd |-> 0, hand |-> 0,
              kinds |-> {"remote"}, bytes |-> RemoteBytes]
    /\ Fresh

SpecRemote == InitRemote /\ [][NextRemote]_vars

\* one local forwarder and the pumps of its clients, with the traffic signals
LocalPumps ==
    \/ \E r \in Runs : acc_accept_local(r)
    \/ \E r \in Runs : acc_append(r)
    \/ \E c \in Conns : pump_check(c)
    \/ \E c \in Conns : pump_exit(c)
    \/ \E c \in Conns : pump_idle(c)
    \/ \E c \in Conns : pump_from_socket(c)
    \/ \E c \in Conns : pump_from_channel(c)
    \/ \E c \in Conns : pump_update(c)
    \/ \E c \in Conns : pump_emit(c)
    \/ \E c \in Conns : pump_finally(c)

NextPumps == Registry \/ AcceptLoop \/ LocalPumps

InitPumps ==
    /\ cap = [obj |-> PumpObj, run |-> PumpRun, conn |-> PumpConn,
              log |-> {"traffic"}, client |-> 0, fwd |-> 0, hand |-> 0,
              kinds |-> {"local"}, bytes |-> PumpBytes]
    /\ Fresh

SpecPumps == InitPumps /\ [][NextPumps]_vars

\* the steps the accept thread of run r and the pump thread of connection c
\* take by themselves
AcceptOf(r) ==
    \/ acc_init(r) \/ acc_check(r) \/ acc_select_closed(r) \/ acc_select_timeout(r)
    \/ acc_append(r) \/ acc_crash(r) \/ acc_emit(r)
PumpOf(c) ==
    \/ pump_check(c) \/ pump_exit(c) \/ pump_idle(c) \/ pump_from_socket(c)
    \/ pump_from_channel(c) \/ pump_update(c) \/ pump_emit(c) \/ pump_finally(c)

\* one local forwarder, its restarts and its clients; every thread that can
\* take a step keeps running
InitLeak ==
    /\ cap = [obj |-> LeakObj, run |-> LeakRun, conn |-> LeakConn,
              log |-> {"stopped"}, client |-> 0, fwd |-> 0, hand |-> 0,
              kinds |-> {"local"}, bytes |-> LeakBytes]
    /\ Fresh

SpecLeak ==
    /\ InitLeak /\ [][NextPumps]_vars
    /\ \A r \in Runs : WF_vars(AcceptOf(r))
    /\ \A c \in Conns : WF_vars(PumpOf(c))

\* the registry and its accept threads with an observer of the status signal
\* that reads the registry in its slot
NextSync == Registry \/ AcceptLoop \/ start_emit \/ observer_reads

InitSync ==
    /\ cap = [obj |-> SyncObj, run |-> SyncRun, conn |-> 0, log |-> {"runs", "sync"},
              client |-> 0, fwd |-> 0, hand |-> 0,
              kinds |-> {"local", "dynamic"}, bytes |-> 0]
    /\ Fresh

SpecSync == InitSync /\ [][NextSync]_vars

\* add_forwarding's id and the start routine's address for two rules of a kind
identify(type, a, b) ==
    /\ rule' = [type |-> type, a |-> a, b |-> b,
                id_a |-> ForwardingId(type, a), id_b |-> ForwardingId(type, b),
                addr_a |-> ListenAddr(type, a), addr_b |-> ListenAddr(type, b)]
    /\ UNCHANGED <<forwardings, fobj, nobj, lsock, thread, nrun, conn, nconn, extBound,
                   removing, last, signal, added, wrote, stopped, downs, cap, starting,
                   ups, ofRun, socks, traffic, sshvars>>

NextIds ==
    \E t \in Kinds, p1 \in IdPorts, q1 \in IdPorts, p2 \in IdPorts, q2 \in IdPorts :
        identify(t, RuleConfig(t, p1, q1), RuleConfig(t, p2, q2))

InitIds ==
    /\ cap = [obj |-> 0, run |-> 0, conn |-> 0, log |-> {}, client |-> 0, fwd |-> 0,
              hand |-> 0, kinds |-> {}, bytes |-> 0]
    /\ Fresh

SpecIds == InitIds /\ [][NextIds]_vars

\* a PortForwarder and an SSHManager side by side: the forwarders of the one,
\* with their threads and errors, and the sessions of the other
Sessions ==
    \/ \E u \in Users : connect(Host, SshPort, u)
    \/ \E k \in Clients, p \in Ports : start_remote_forwarding(k, Host, p)
    \/ \E o \in Fwds : ssh_stop_forwarding(o)

\* a client of a local forwarder whose pump ends with an error
FailingPump ==
    \/ \E r \in Runs : acc_accept_local(r)
    \/ \E r \in Runs : acc_append(r)
    \/ \E c \in Conns : pump_check(c)
    \/ \E c \in Conns : pump_exit(c)
    \/ \E c \in Conns : pump_finally(c)

NextBoth == Registry \/ Environment \/ AcceptLoop \/ FailingPump \/ Sessions

InitBoth ==
    /\ cap = [obj |-> BothObj, run |-> BothRun, conn |-> BothConn, log |-> {},
              client |-> BothClient, fwd |-> BothFwd, hand |-> 0,
              kinds |-> {"local"}, bytes |-> 0]
    /\ Fresh

SpecBoth == InitBoth /\ [][NextBoth]_vars

\* the sessions with the credentials of their connect calls
NextAuth ==
    \/ \E u \in Users, pw \in Passwords, kp \in KeyPaths :
          connect_by(Host, SshPort, u, pw, kp)
    \/ \E k \in Clients : disconnect(k)

InitAuth ==
    /\ cap = [obj |-> 0, run |-> 0, conn |-> 0, log |-> {},
              client |-> AuthClient, fwd |-> 0, hand |-> 0, kinds |-> {}, bytes |-> 0]
    /\ Fresh

SpecAuth == InitAuth /\ [][NextAuth]_vars

\* SSHManager alone: no PortForwarder record is ever added
InitSSH ==
    /\ cap = [obj |-> 0, run |-> 0, conn |-> 0, log |-> {},
              client |-> MaxClient, fwd |-> MaxFwd, hand |-> 0, kinds |-> {}, bytes |-> 0]
    /\ Fresh

SpecSSH == InitSSH /\ [][NextSSH]_vars

\* one session and one forwarding of it, with threads that keep running: a
\* thread that can take a step takes one
InitLost ==
    /\ cap = [obj |-> 0, run |-> 0, conn |-> 0, log |-> {},
              client |-> LostClient, fwd |-> LostFwd, hand |-> 0, kinds |-> {},
              bytes |-> 0]
    /\ Fresh

SpecLost == InitLost /\ [][NextSSH]_vars /\ WF_vars(SshAcceptLoop)

\* one client of SSHManager, one forwarding, and the clients of its listener
InitSocks ==
    /\ cap = [obj |-> 0, run |-> 0, conn |-> 0, log |-> {},
              client |-> SocksClient, fwd |-> SocksFwd, hand |-> MaxHand, kinds |-> {}, bytes |-> 0]
    /\ Fresh

SpecSocks == InitSocks /\ [][NextSocks]_vars

\* the channel of a client that was closed reads as EOF: the pump leaves
ssh_forward_eof(h) ==
    /\ hand[h].pc \in {"loop", "wait"}
    /\ client[sfwd[hand[h].fwd].client].st # "open"
    /\ ssh_forward_data(h)

\* the steps a handler thread takes by itself, whatever its peers do
SshWorkers ==
    \/ \E h \in Hands : ssh_forward_eof(h)
    \/ \E h \in Hands : ssh_handle_local_connection(h)
    \/ \E h \in Hands : ssh_handle_socks_connection(h)
    \/ \E h \in Hands : ssh_forward_select(h)
    \/ \E h \in Hands : ssh_forward_timeout(h)

\* a client that stops sending
SshStalls == \E h \in Hands : ssh_recv_blocks(h)

NextIdle == NextSocks \/ SshWorkers \/ SshStalls

\* SSHManager with clients that stop sending and peers that stay idle; every
\* thread that can take a step keeps running
SpecIdle ==
    InitSocks /\ [][NextIdle]_vars /\ WF_vars(SshAcceptLoop) /\ WF_vars(SshWorkers)

---------------------------------------------------------------------------
(* Properties *)

\* the record registered under id i
Rec(i) == fobj[forwardings[i]]

\* every connection accepted for record o has ended: its pump returned, or no
\* pump was ever started for it
PumpsOver(o) == \A c \in Conns : conn[c].fwd = o => conn[c].pc \in {"never", "done"}

RECURSIVE SumSent(_), SumReceived(_)
SumSent(S) ==
    IF S = {} THEN 0
    ELSE LET c == CHOOSE x \in S : TRUE IN conn[c].bytes_sent + SumSent(S \ {c})
SumReceived(S) ==
    IF S = {} THEN 0
    ELSE LET c == CHOOSE x \in S : TRUE IN conn[c].bytes_received + SumReceived(S \ {c})

\* C1: after any interleaving of add_forwarding and remove_forwarding calls,
\* get_all_forwardings() lists exactly the ids whose add returned an id and whose
\* remove has not returned since, each of them once.
C1_ListIsAddedNotRemoved ==
    /\ DOMAIN get_all_forwardings = added
    /\ \A x \in DOMAIN get_all_forwardings : get_all_forwardings[x] = 1

\* C1 witness: two records were added, a remove of one returned, the other is listed
C1_Witness ==
    /\ last.op = "remove" /\ last.ret = "True"
    /\ nobj = 2
    /\ last.id \notin added
    /\ added # {}

\* C2: add_forwarding of an id that is registered returns None and changes
\* neither the registry nor any record (active flag, counters, connection list,
\* error), and the id stays listed once.
C2_DuplicateAddRejected ==
    [][(last'.op = "add" /\ last'.id \in Ids /\ forwardings[last'.id] # 0)
        => /\ last'.ret = None
           /\ UNCHANGED <<forwardings, fobj, nobj, conn>>
           /\ get_all_forwardings'[last'.id] = 1]_vars

\* C2 witness: a duplicate add of a started forwarder returned None
C2_Witness ==
    /\ last.op = "add" /\ last.ret = None
    /\ last.id \in Ids
    /\ forwardings[last.id] # 0
    /\ Rec(last.id).active

\* C3: once stop_forwarding(id) has returned (and until the next start), the
\* record is inactive and no forwarding_traffic signal is emitted for it.
C3_NoTrafficAfterStop ==
    /\ [](\A o \in Objs : stopped[o] => ~fobj[o].active)
    /\ [][\A o \in Objs :
            stopped[o] => ~(signal'.kind = "traffic" /\ signal'.fwd = o)]_vars

\* C4 as claimed: once every connection of a registered forwarder has ended,
\* Status reports no connection, bytes_sent = the bytes its pumps wrote to
\* channels and bytes_received = the bytes its pumps wrote to local sockets.
C4_CountersEqualBytesWritten ==
    \A i \in Ids :
        (forwardings[i] # 0 /\ PumpsOver(forwardings[i]))
        => /\ get_forwarding_status(i).connections = 0
           /\ get_forwarding_status(i).bytes_sent = wrote[forwardings[i]].chan
           /\ get_forwarding_status(i).bytes_received = wrote[forwardings[i]].sock

\* C4 amended: once every pump of a registered forwarder has returned, Status
\* reports no connection, bytes_sent = the total size of the chunks its pumps
\* wrote in full to channels and bytes_received = the total size of the chunks
\* they wrote in full to local sockets (a chunk whose sendall raises part-way
\* is not counted).
C4_CountersEqualChunksWritten ==
    \A i \in Ids :
        (forwardings[i] # 0 /\ PumpsOver(forwardings[i]))
        => /\ get_forwarding_status(i).connections = 0
           /\ get_forwarding_status(i).bytes_sent = wrote[forwardings[i]].chan_full
           /\ get_forwarding_status(i).bytes_received = wrote[forwardings[i]].sock_full

\* C4 witness: a forwarder whose only connection echoed MaxBytes bytes and ended
C4_Witness ==
    \E i \in Ids :
        /\ forwardings[i] # 0
        /\ PumpsOver(forwardings[i])
        /\ \E c \in Conns : conn[c].fwd = forwardings[i] /\ conn[c].pc = "done"
        /\ get_forwarding_status(i).bytes_sent = MaxBytes
        /\ get_forwarding_status(i).bytes_received = MaxBytes

\* C5: when _handle_forwarding has returned, its connection dict is not on the
\* record's connection list and its socket and its channel are closed.
C5_PumpReturnedClean ==
    \A c \in Conns :
        conn[c].pc = "done"
        => /\ conn[c].socket = "closed"
           /\ conn[c].channel = "closed"
           /\ c \notin fobj[conn[c].fwd].connections

\* C5 witness: a pump of a local forwarder that moved bytes returned while the
\* forwarder is still active (its peer closed or an I/O error ended it)
C5_Witness ==
    \E c \in Conns :
        /\ conn[c].pc = "done"
        /\ conn[c].bytes_sent > 0
        /\ fobj[conn[c].fwd].type = "local"
        /\ fobj[conn[c].fwd].active

\* C6: while an id stays registered to its record, no step (start, stop,
\* restart, traffic) lowers the record's bytes_sent or bytes_received.
C6_CountersMonotone ==
    [][\A i \in Ids :
        (forwardings[i] # 0 /\ forwardings'[i] = forwardings[i])
        => /\ Rec(i)'.bytes_sent >= Rec(i).bytes_sent
           /\ Rec(i)'.bytes_received >= Rec(i).bytes_received]_vars

\* C6 witness: a forwarder with traffic counted, stopped and started again
C6_Witness ==
    \E i \in Ids :
        /\ forwardings[i] # 0
        /\ Rec(i).active
        /\ Rec(i).server_socket = 2
        /\ Rec(i).bytes_sent > 0
        /\ Rec(i).bytes_received > 0

\* C7: the per-connection counters of the connections on a record's list sum
\* to at most the record's aggregate counter, for each direction.
C7_ConnectionSumBounded ==
    \A o \in Objs :
        /\ SumSent(fobj[o].connections) <= fobj[o].bytes_sent
        /\ SumReceived(fobj[o].connections) <= fobj[o].bytes_received

\* C7 witness: two listed connections that both counted bytes
C7_Witness ==
    \E o \in Objs :
        /\ Cardinality(fobj[o].connections) = 2
        /\ \A c \in fobj[o].connections : conn[c].bytes_sent > 0
        /\ SumSent(fobj[o].connections) = fobj[o].bytes_sent

\* C8: a start_forwarding(id) that returned True leaves the record active with
\* its listener open, the only one on its address; the same call made again
\* right after returns True, changes nothing and emits no signal, so the two
\* calls emit at most the one active=true signal of the first.
C8_StartTwice ==
    /\ []((last.op = "start" /\ last.ret = "True")
          => /\ forwardings[last.id] # 0
             /\ Rec(last.id).active
             /\ lsock[Rec(last.id).server_socket].st = "open"
             /\ Cardinality({r \in Runs : /\ lsock[r].st = "open"
                                          /\ lsock[r].addr = BindAddr(Rec(last.id))}) = 1)
    /\ [][(last'.op = "start" /\ last'.again)
          => /\ last'.ret = "True"
             /\ UNCHANGED prog
             /\ signal' = NoSignal
             /\ signal \in {NoSignal, StatusSignal(forwardings[last'.id], TRUE)}]_vars

\* C8 witness: start_forwarding returned True twice in a row
C8_Witness ==
    /\ last.op = "start" /\ last.again /\ last.ret = "True"
    /\ Rec(last.id).active

\* C9: between two starts of a forwarder at most one
\* forwarding_status_changed(active=false) signal is emitted for it, by
\* stop_forwarding and its accept loop together.
C9_OneDownPerStop == \A o \in Objs : downs[o] <= 1

\* C10: start_forwarding of an inactive local or dynamic forwarder whose bind
\* is refused returns False, leaves it inactive with its error set and emits no
\* signal; when the address is free it returns True and the forwarder is active.
C10_BindRefused ==
    [][\A i \in Ids :
        (last'.op = "start" /\ last'.id = i /\ forwardings[i] # 0 /\ ~Rec(i).active)
        => IF AddrInUse(BindAddr(Rec(i)))
           THEN /\ last'.ret = "False"
                /\ get_forwarding_status(i)'.active = FALSE
                /\ get_forwarding_status(i)'.error # None
                /\ signal' = NoSignal
           ELSE /\ last'.ret = "True"
                /\ get_forwarding_status(i)'.active = TRUE
                /\ signal' = StatusSignal(forwardings[i], TRUE)]_vars

\* C10 witness: a start that succeeded on a forwarder whose error field held a
\* refused bind
C10_Witness ==
    /\ last.op = "start" /\ last.ret = "True" /\ last.was = "bind"
    /\ Rec(last.id).active

---------------------------------------------------------------------------
(* Properties of SSHManager *)

\* the positions of the last step's signals that are signal g
Emissions(g) == {n \in 1..Len(emitted) : emitted[n] = g}
\* the same for the signals of the step being taken
EmissionsNext(g) == {n \in 1..Len(emitted') : emitted'[n] = g}

\* C11: a connect call that fails returns None, inserts no session into the
\* clients registry and emits no connection_status_changed(up) event.
C11_FailedConnect ==
    [][ssh_last'.op = "connect" /\ ssh_last'.ret = None
       => /\ clients' = clients
          /\ client' = client
          /\ \A i \in ClientIds : EmissionsNext(ConnectionSignal(i, TRUE)) = {}]_vars

\* a connect failed while another session is registered
C11_Witness ==
    /\ ssh_last.op = "connect" /\ ssh_last.ret = None
    /\ clients[ssh_last.id] = 0
    /\ \E i \in ClientIds : clients[i] # 0

\* C12: connect for an identity that is already in the registry returns a
\* failure and leaves the existing registry entry, the existing session
\* object, untouched.
C12_ConnectExistingRefused ==
    [][ssh_last'.op = "connect" /\ ssh_last'.was # 0
       => /\ ssh_last'.ret = None
          /\ clients' = clients
          /\ client' = client]_vars

\* C13: after disconnect(client) returns, every forwarding that was started on
\* that client is inactive. Stated for the least the claim asks: the client is
\* the session the registry holds, and no forwarding started on it still has
\* active = True (its accept loop may not have left its select yet).
C13_DisconnectStopsAll ==
    ssh_last.op = "disconnect" /\ ssh_last.was = ssh_last.client
    => \A o \in Fwds :
          sfwd[o].type # None /\ sfwd[o].client = ssh_last.client => ~sfwd[o].active

\* C14: when disconnect(client) is called while forwardings of that client are
\* active, each of them emits forwarding_status_changed(active=false) exactly
\* once, and all these emissions precede connection_status_changed(down).
\* Stated for a client that is the session the registry holds.
C14_DownsBeforeSessionDown ==
    ssh_last.op = "disconnect" /\ ssh_last.was = ssh_last.client /\ ssh_last.were # {}
    => \A o \in ssh_last.were :
          /\ Cardinality(Emissions(ForwardingSignal(o, FALSE))) = 1
          /\ \A n \in Emissions(ForwardingSignal(o, FALSE)), i \in ClientIds :
                \A m \in Emissions(ConnectionSignal(i, FALSE)) : n < m

---------------------------------------------------------------------------
(* Properties of the event order *)

\* C16: for every forwarder and every run of it, the
\* forwarding_status_changed(active=true) event of the run is emitted before
\* any forwarding_traffic event of a connection of that run, for the four kinds
\* and any interleaving of the starting thread with the other threads.
C16_UpBeforeTraffic ==
    [][\A c \in Conns :
          conn[c].pc = "emit" /\ conn'[c].pc # "emit" /\ signal'.kind = "traffic"
          => ofRun[c] \in ups]_vars

\* a connection accepted in the second run of a forwarder has moved bytes and
\* emitted a traffic event
C16_Witness ==
    /\ signal.kind = "traffic"
    /\ \E c \in Conns :
          /\ conn[c].fwd = signal.fwd /\ ofRun[c] = 2
          /\ conn[c].bytes_sent + conn[c].bytes_received > 0

\* C17: a failure to open the direct-tcpip channel for one accepted client
\* (open_channel returns no channel or raises) closes that client socket only:
\* the forwarder stays active, no forwarding_status_changed(active=false) is
\* emitted and the accept loop goes on to its next iteration.
C17_ChannelFailureIsLocal ==
    [][\A r \in Runs :
          /\ thread[r].pc = "select" /\ thread'[r].pc # "select"
          /\ fobj[thread[r].fwd].type = "local"
          /\ nconn' = nconn + 1 /\ conn'[nconn + 1].channel = "none"
          => /\ conn'[nconn + 1].socket = "closed"
             /\ thread'[r].pc = "check"
             /\ fobj'[thread[r].fwd].active = fobj[thread[r].fwd].active
             /\ signal' # StatusSignal(thread[r].fwd, FALSE)]_vars

\* C18: when a session's transport is lost without disconnect being called, a
\* session-down event is fired and every forwarder attached to the session
\* becomes inactive. Stated for the least the claim asks: with a forwarder of
\* the session listening, the event is fired or the forwarder becomes inactive.
C18_LostLeadsToDown ==
    \A k \in Clients :
        (client[k].st = "lost" /\ \E o \in ActiveOf(k) : sfwd[o].pc = "check")
        ~> (\/ Emissions(ConnectionSignal(client[k].id, FALSE)) # {}
            \/ ActiveOf(k) = {})

---------------------------------------------------------------------------
(* Properties of the SOCKS5 handlers *)

\* C19: in every SOCKS5 handler, a request whose CMD is not 0x01 gets the
\* 10-byte reply 05 07 00 01 00 00 00 00 00 00 before the client socket is
\* closed, and the forwarder remains active.
C19_CommandNotSupported ==
    [][/\ \A c \in Conns :
            /\ conn[c].pc = "socks" /\ conn'[c].pc # "socks"
            /\ socks'[c].req.ver = 5 /\ socks'[c].req.cmd # 1
            => /\ socks'[c].reply = <<SocksMethodReply, SocksReply(7)>>
               /\ conn'[c].socket = "closed"
               /\ fobj' = fobj
       /\ \A h \in Hands :
            /\ hand[h].pc = "handle" /\ hand'[h].pc # "handle"
            /\ hand'[h].req.ver = 5 /\ hand'[h].req.cmd # 1
            => /\ hand'[h].reply = <<SocksMethodReply, SocksReply(7)>>
               /\ hand'[h].socket = "closed"
               /\ sfwd' = sfwd]_vars

\* C20: a SOCKS5 request with ATYP=0x03 and a domain length byte of 0 is
\* rejected: the client socket is closed, no direct-tcpip channel is opened, no
\* success reply is sent, and the forwarder is unaffected.
C20_EmptyDomainRejected ==
    [][/\ \A c \in Conns :
            /\ conn[c].pc = "socks" /\ conn'[c].pc # "socks"
            /\ socks'[c].req.ver = 5 /\ socks'[c].req.cmd = 1
            /\ socks'[c].req.atyp = 3 /\ socks'[c].req.len = 0
            => /\ conn'[c].socket = "closed"
               /\ ~socks'[c].opened
               /\ \A n \in 1..Len(socks'[c].reply) : socks'[c].reply[n] # SocksReply(0)
               /\ fobj' = fobj
       /\ \A h \in Hands :
            /\ hand[h].pc = "handle" /\ hand'[h].pc # "handle"
            /\ hand'[h].req.ver = 5 /\ hand'[h].req.cmd = 1
            /\ hand'[h].req.atyp = 3 /\ hand'[h].req.len = 0
            => /\ hand'[h].socket = "closed"
               /\ ~hand'[h].opened
               /\ \A n \in 1..Len(hand'[h].reply) : hand'[h].reply[n] # SocksReply(0)
               /\ sfwd' = sfwd]_vars

\* C21: in every SOCKS5 handler the success reply 05 00 00 01 00 00 00 00 00 00
\* is sent only after the direct-tcpip channel was opened; when the open fails
\* (no channel returned, or an exception) the client receives the reply
\* 05 04 00 01 00 00 00 00 00 00 and is closed, and receives no success reply.
C21_SuccessOnlyWithChannel ==
    [][/\ \A c \in Conns :
            conn[c].pc = "socks" /\ conn'[c].pc # "socks"
            => /\ (\E n \in 1..Len(socks'[c].reply) : socks'[c].reply[n] = SocksReply(0))
                  => conn'[c].channel = "open"
               /\ (socks'[c].opened /\ conn'[c].channel # "open")
                  => /\ socks'[c].reply = <<SocksMethodReply, SocksReply(4)>>
                     /\ conn'[c].socket = "closed"
       /\ \A h \in Hands :
            hand[h].pc = "handle" /\ hand'[h].pc # "handle"
            => /\ (\E n \in 1..Len(hand'[h].reply) : hand'[h].reply[n] = SocksReply(0))
                  => hand'[h].channel = "open"
               /\ (hand'[h].opened /\ hand'[h].channel # "open"
                      /\ sfwd[hand[h].fwd].type = "dynamic")
                  => /\ hand'[h].reply = <<SocksMethodReply, SocksReply(4)>>
                     /\ hand'[h].socket = "closed"]_vars

---------------------------------------------------------------------------
(* Properties of the remote forwarder *)

\* C22: starting a remote forwarder with remote_port == 0 records the port the
\* server allocated: Status shows a non-zero port, and the forwarder is
\* registered under the id that carries the allocated port, the address the
\* server listens on.
C22_AllocatedPortRecorded ==
    \A i \in Ids :
        (/\ IsRegistered(i) /\ Rec(i).type = "remote" /\ Rec(i).active
         /\ Rec(i).config.remote_port = NoPort)
        => /\ get_forwarding_status(i).id[3] # NoPort
           /\ i = get_forwarding_status(i).id
           /\ \E r \in Runs : /\ thread[r].fwd = forwardings[i]
                                /\ lsock[r].st = "forward"
                                /\ lsock[r].addr = <<i[2], i[3]>>

\* C23: stopping an active remote forwarder calls cancel_port_forward and then
\* closes every live connection of the forwarder: after the stop the server
\* side listener has been released and no connection of the forwarder is open.
C23_RemoteStopReleases ==
    [][\A o \in Objs :
          (/\ fobj[o].type = "remote" /\ fobj[o].active /\ ~fobj'[o].active
           /\ signal' = StatusSignal(o, FALSE))
          => /\ \A r \in Runs : thread'[r].fwd = o => lsock'[r].st # "forward"
             /\ \A c \in Conns :
                   conn'[c].fwd = o
                   => conn'[c].socket # "open" /\ conn'[c].channel # "open"]_vars

\* C27: registry operations hold the registry lock only while they touch
\* in-memory records: no thread waits for a network round trip
\* (request_port_forward) while it holds the lock.
C27_NoRoundTripUnderLock == starting.wait => Unlocked

\* C29: the remote-forward handler registers the connection and spawns the
\* pump: the thread of the transport that called the handler is not held while
\* the connection is pumped, so a second inbound channel is handled without
\* waiting for the first to finish.
C29_HandlerReturnsAtOnce ==
    \A r \in Runs :
        thread[r].pc = "handler"
        => conn[thread[r].client].pc \notin {"loop", "select", "chan", "update", "emit"}

---------------------------------------------------------------------------
(* Properties of concurrent pumps *)

\* the bytes pumps of record o have counted in direction d and not yet signalled
Pending(o, d) ==
    LET S == {c \in Conns : conn[c].fwd = o /\ conn[c].pc = "emit" /\ conn[c].pend_dir = d}
        RECURSIVE Sum(_)
        Sum(T) == IF T = {} THEN 0
                  ELSE LET c == CHOOSE x \in T : TRUE IN conn[c].pend + Sum(T \ {c})
    IN  Sum(S)

\* C24: with several pumps running concurrently on one forwarder no counter
\* update is lost: after any interleaving the forwarder's bytes_sent is the sum
\* of the sent deltas of the forwarding_traffic signals emitted for it, plus
\* the deltas of the pumps that are between their update and their emit; and
\* likewise bytes_received.
C24_NoLostUpdate ==
    \A o \in Objs :
        /\ fobj[o].bytes_sent = traffic[o].sent + Pending(o, "sent")
        /\ fobj[o].bytes_received = traffic[o].received + Pending(o, "received")

\* two pumps of one forwarder have each counted and signalled a byte sent, and
\* both have returned
C24_Witness ==
    \E o \in Objs :
        /\ traffic[o].sent = 2
        /\ Cardinality({c \in Conns : /\ conn[c].fwd = o /\ conn[c].pc = "done"
                                       /\ conn[c].bytes_sent = 1}) = 2

---------------------------------------------------------------------------
(* Properties of the restart, of the ids and of the connection list *)

\* C26: a forwarder cannot be restarted under the same identity while work of
\* its previous run is in flight: when start_forwarding succeeds after a
\* stop_forwarding, every pump thread and the accept loop of the earlier run
\* have terminated.
C26_RestartAfterDrain ==
    [][\A o \in Objs :
          (stopped[o] /\ ~fobj[o].active /\ fobj'[o].active)
          => /\ \A r \in Runs : thread[r].fwd = o => thread[r].pc = "done"
             /\ PumpsOver(o)]_vars

\* C28: the id add_forwarding computes is "{type}:{bind_host}:{bind_port}" of
\* the address the forwarder listens on, for the four kinds: two rules of one
\* kind get the same id if and only if they listen on the same host and port.
C28_IdIsListenAddress ==
    rule.type \in Kinds
    => /\ rule.id_a = <<rule.type, rule.addr_a[1], rule.addr_a[2]>>
       /\ rule.id_b = <<rule.type, rule.addr_b[1], rule.addr_b[2]>>
       /\ (rule.id_a = rule.id_b) <=> (rule.addr_a = rule.addr_b)

\* C30: every forwarded flow of a dynamic forwarder is on the forwarder's
\* connection list from the success reply until its pump ends, so Status
\* counts it and stop_forwarding closes it.
C30_SocksFlowListed ==
    \A c \in Conns :
        (/\ conn[c].fwd # 0 /\ fobj[conn[c].fwd].type = "dynamic"
         /\ conn[c].pc \in {"loop", "select", "chan", "update", "emit"})
        => c \in fobj[conn[c].fwd].connections

---------------------------------------------------------------------------
(* Properties of the forwarders next to the sessions *)

\* C25: no forwarder operation and no forwarder error (start failure, bind
\* error, accept-loop error, pump error, Stop, Remove) changes the session
\* registry or closes a session: every step of PortForwarder and every
\* SSHManager.stop_forwarding leaves the set of sessions and their transports
\* unchanged.
C25_SessionsUntouched ==
    [][(prog' # prog \/ signal' # signal \/ ssh_last'.op = "stop")
       => UNCHANGED <<clients, client>>]_vars

\* a session is registered and open after a forwarding of it was stopped, a
\* forwarder's accept loop and pump ended and a start of it was refused
C25_Witness ==
    /\ ssh_last.op = "stop"
    /\ \E k \in Clients : client[k].st = "open" /\ clients[client[k].id] = k
    /\ \E o \in Objs : fobj[o].error = "bind" /\ ~fobj[o].active
    /\ \E r \in Runs : thread[r].pc = "done" /\ lsock[r].st = "closed"
    /\ \E c \in Conns : conn[c].pc = "done"

---------------------------------------------------------------------------
(* Properties of the end of an accept loop and of remove_forwarding *)

\* C37: whenever an accept loop ends, by Stop or by an unrecoverable error,
\* its listener socket is closed: in no state is a forwarder inactive with
\* every accept loop of it ended and a listener of it still bound.
C37_EndedLoopClosedListener ==
    \A o \in Objs :
        (/\ ~fobj[o].active
         /\ \A r \in Runs : thread[r].fwd = o => thread[r].pc = "done")
        => \A r \in Runs : thread[r].fwd = o => lsock[r].st # "open"

\* C38: an accept loop left over from an earlier run never affects a later
\* run: a thread's outer except clears the active flag of a forwarder only
\* if the thread is the one of the forwarder's current run.
C38_OldLoopLeavesNewRun ==
    [][\A r \in Runs :
          (/\ thread[r].pc = "crash" /\ thread'[r].pc = "emit"
           /\ fobj[thread[r].fwd].active /\ ~fobj'[thread[r].fwd].active)
          => fobj[thread[r].fwd].thread = r]_vars

\* C39: for every interleaving of remove_forwarding(id) with start_forwarding
\* (id), no forwarder whose id is absent from the registry has the active
\* flag set or an accept loop running on a bound listener.
C39_RemovedIsNotRunning ==
    \A o \in Objs :
        (o <= nobj /\ forwardings[fobj[o].id] # o)
        => /\ ~fobj[o].active
           /\ \A r \in Runs :
                  thread[r].fwd = o
                  => ~(lsock[r].st = "open" /\ thread[r].pc \notin {"done", "none"})

---------------------------------------------------------------------------
(* Properties of the lock *)

\* C36: the status event is never delivered while the emitting thread holds
\* the registry lock: whenever the slot of an observer of
\* forwarding_status_changed runs, inside a start_forwarding call or an accept
\* thread, the lock is free, so its get_forwarding_status gets an answer.
C36_SlotRunsUnlocked ==
    (starting.emit \/ \E r \in Runs : thread[r].pc = "slot") => Unlocked

\* C35: no interleaving deadlocks PortForwarder: in no state does a
\* start_forwarding call wait, holding the lock, for the server's answer to its
\* request while the thread of the transport that would deliver the answer
\* waits in _handle_remote_connection for the same lock.
C35_NoMutualWait ==
    ~(/\ starting.wait
      /\ \E r \in Runs : thread[r].fwd = starting.fwd /\ thread[r].pc = "lock")

---------------------------------------------------------------------------
(* Properties of SSHManager's authentication, binds, workers and pumps *)

\* C32: connect tries the authentication methods in order: called with a
\* readable key file and a password, for a server that accepts no key the
\* client finds by itself, it succeeds if and only if the server accepts the
\* key or, the key refused, the password.
C32_PasswordAfterKey ==
    [][(/\ ssh_last'.op = "connect"
        /\ auth'.key_path = "id_rsa" /\ auth'.password # ""
        /\ "agent" \notin auth'.accepts)
       => (ssh_last'.ret = "client"
           <=> auth'.accepts \cap {"pkey", "password"} # {})]_vars

\* C33: a start_local_forwarding or start_dynamic_forwarding whose listener
\* bind is refused returns None, emits no forwarding_status_changed with
\* active=true and leaves no active entry in the registry: when the bind of a
\* dict is refused, the call that built the dict has not just returned it or
\* announced it, and the dict is not registered with its active flag set.
C33_RefusedBindStartsNothing ==
    [][\A o \in Fwds :
          (sfwd[o].pc = "bind" /\ sfwd'[o].pc = "done")
          => /\ ~(/\ ssh_last.op = "start" /\ ssh_last.ret = "forwarding"
                  /\ \A j \in Fwds : j > o => sfwd[j].type = None)
             /\ \A n \in 1..Len(emitted) : emitted[n] # ForwardingSignal(o, TRUE)
             /\ ~(/\ sfwd[o].active
                  /\ \E n \in 1..Len(ssh_forwardings) : ssh_forwardings[n].fwd = o)]_vars

\* C31: every SOCKS5 negotiation terminates: a handler that reads the request
\* of a client eventually leaves the negotiation, for its pump or with the
\* socket closed, also when the client stops sending.
C31_NegotiationEnds ==
    \A h \in Hands :
        (hand[h].pc \in {"handle", "recv"} /\ sfwd[hand[h].fwd].type = "dynamic")
        ~> (hand[h].pc \in {"loop", "wait", "done"})

\* C34: after stop_forwarding, every byte pump of the forwarding eventually
\* ends and closes both endpoints, also when both peers stay open and idle.
C34_StoppedPumpEnds ==
    \A h \in Hands :
        (hand[h].pc \in {"loop", "wait"} /\ ~sfwd[hand[h].fwd].active)
        ~> (hand[h].pc = "done" /\ hand[h].socket = "closed"
            /\ hand[h].channel = "closed")

---------------------------------------------------------------------------
(* Properties of the connections accepted while the forwarder is stopped *)

\* C40: a connection accepted concurrently with Stop is not leaked: a listed
\* connection of an inactive forwarder has its pump end with socket and
\* channel closed, unless the forwarder is started again, and the connection
\* list of a forwarder that stays inactive eventually becomes and stays empty.
C40_StoppedListDrains ==
    /\ \A o \in Objs :
          <>[](~fobj[o].active) => <>[](fobj[o].connections = {})
    /\ \A c \in Conns :
          (/\ conn[c].pc = "loop" /\ ~fobj[conn[c].fwd].active
           /\ c \in fobj[conn[c].fwd].connections)
          ~> (/\ conn[c].fwd # 0
              /\ \/ fobj[conn[c].fwd].active
                 \/ /\ conn[c].pc = "done" /\ conn[c].socket = "closed"
                    /\ conn[c].channel = "closed"
                    /\ c \notin fobj[conn[c].fwd].connections)

\* stop_forwarding returned, no accept loop failed, and a connection that was
\* appended after the stop cleared the list is on the list, its pump not yet
\* run
C40_Witness ==
    \E c \in Conns :
        /\ conn[c].pc = "loop" /\ conn[c].socket = "open"
        /\ LET o == conn[c].fwd IN
           /\ stopped[o] /\ ~fobj[o].active /\ fobj[o].error = None
           /\ c \in fobj[o].connections

====
